---- MODULE Spec2Model ----
(***************************************************************************)
(* The file indexer of etools (src-tauri/src/services/file_indexer.rs) and *)
(* the files table it writes (src-tauri/src/db/files.rs).                  *)
(*                                                                         *)
(* One FileIndexer instance, the scanner and watcher threads its start()   *)
(* spawns, the callers of start / stop / index_paths / upsert_file /       *)
(* delete_file, and the file system under the configured root.             *)
(***************************************************************************)
EXTENDS Integers, Sequences, FiniteSets, Bags, TLC

(***************************************************************************)
(* Bounds of the model.                                                    *)
(***************************************************************************)
\* the clock (Unix seconds) runs over 0..MaxTime
MaxTime == 1
\* events waiting in one watcher channel (the mpsc channel is unbounded)
MaxQueue == 1
\* start() calls that spawn threads
MaxStarts == 2
\* the largest limit a search is called with
MaxLimit == 2

(***************************************************************************)
(* Names and paths.  A name is a string, a path a sequence of names        *)
(* (PathBuf components).                                                   *)
(***************************************************************************)
n_proj == "proj"
n_gone == "gone"
n_sub == "sub"
n_node_modules == "node_modules"
n_git == ".git"
n_target == "target"
n_dist == "dist"
n_build == "build"
n_cache == ".cache"
n_a_txt == "a.txt"
n_b_txt == "b.txt"
n_d_txt == "d.txt"
n_env == ".env"

\* IndexerConfig::default().excluded_dirs
excluded_dirs == {n_node_modules, n_git, n_target, n_dist, n_build, n_cache}

\* the directory tree: /proj, /proj/node_modules, /proj/sub,
\* /proj/sub/node_modules exist throughout; /gone never does
ProjDir == <<n_proj>>
GoneDir == <<n_gone>>
NodeModulesDir == <<n_proj, n_node_modules>>
SubDir == <<n_proj, n_sub>>
SubNodeModulesDir == <<n_proj, n_sub, n_node_modules>>
Dirs == {ProjDir, NodeModulesDir, SubDir, SubNodeModulesDir}

\* the regular files that may come and go
FileA == <<n_proj, n_a_txt>>
FileB == <<n_proj, n_node_modules, n_b_txt>>
FileC == <<n_proj, n_sub, n_env>>
FileD == <<n_proj, n_sub, n_node_modules, n_d_txt>>
FileUniverse == {FileA, FileB, FileC, FileD}
\* a regular file whose own name is an entry of excluded_dirs
FileBuild == <<n_proj, n_build>>
\* every regular file the disk may hold
DiskFiles == FileUniverse \cup {FileBuild}

\* IndexerConfig.paths of the indexer
config_paths == <<GoneDir, ProjDir>>

NoFile == [size |-> 0, modified |-> 0]
None == <<>>
Some(x) == <<x>>

(***************************************************************************)
(* Path functions of std::path used by the indexer.                        *)
(***************************************************************************)
file_name(path) == path[Len(path)]

parent(path) == SubSeq(path, 1, Len(path) - 1)

\* PathBuf::to_string_lossy: the components joined by "/"
RECURSIVE to_string_lossy(_)
to_string_lossy(path) ==
    IF path = <<>> THEN ""
    ELSE "/" \o path[1] \o to_string_lossy(Tail(path))

LastDot(name) ==
    LET dots == {i \in 1..Len(name) : SubSeq(name, i, i) = "."}
    IN  IF dots = {} THEN 0 ELSE CHOOSE i \in dots : \A j \in dots : j <= i

\* Path::extension: None without a dot, or when the only dot leads the name
extension(path) ==
    LET name == file_name(path)
        k == LastDot(name)
    IN  IF k <= 1 THEN None ELSE Some(SubSeq(name, k + 1, Len(name)))

starts_with_dot(name) == Len(name) > 0 /\ SubSeq(name, 1, 1) = "."

\* a path some segment of which is in excluded_dirs
HasExcludedSegment(path) == \E i \in 1..Len(path) : path[i] \in excluded_dirs

\* a path below an excluded directory: a segment other than the last is excluded
InsideExcludedDir(path) ==
    \E i \in 1..(Len(path) - 1) : path[i] \in excluded_dirs

(***************************************************************************)
(* State.                                                                  *)
(***************************************************************************)
\* the BrowserType enumeration, and BrowserReaderConfig::default()
BrowserType == {"Chrome", "Firefox", "Safari", "Edge"}
enabled_browsers == <<"Chrome", "Firefox", "Safari", "Edge">>
cache_expiry_minutes == 5

\* a file of a profile: absent, present and unreadable as what it should be,
\* or present with the listed entries
NoFileData == [state |-> "absent", items |-> <<>>]
\* a profile directory: dir is whether get_browser_data_dir returns Ok (HOME
\* is set, the platform has the browser); bookmarks is Default/Bookmarks;
\* history is Default/History, places.sqlite (which holds the Firefox
\* bookmarks too) or History.db
NoProfile == [dir |-> TRUE, bookmarks |-> NoFileData, history |-> NoFileData]

\* no update_cache call has run
NoCycle == [pc |-> "idle", i |-> 0, count |-> 0, entries |-> <<>>,
            from |-> <<>>, written |-> 0, failed |-> {}, expired |-> 0]

Threads == 1..MaxStarts

VARIABLES
    disk,           \* file system: DiskFiles -> NoFile or [size, modified]
    now,            \* chrono::Utc::now().timestamp()
    store_ok,       \* whether init_files_db can open the store
    files,          \* the files table: a bag of rows
    indexed_files,  \* FileIndexer.indexed_files, the seen set
    seen_lock,      \* holder of the indexed_files mutex, or <<>>
    is_running,     \* FileIndexer.is_running
    app_handle,     \* FileIndexer.app_handle is Some
    spawned,        \* number of start() calls that went past the running check
    starting,       \* thread index of the start() inside setup_file_watcher, or 0
    watching,       \* per start: the notify watcher is alive
    channel,        \* per start: events sent and not yet received
    scanner,        \* per start: the periodic scanner thread
    watcher,        \* per start: the watcher thread
    last_call,      \* the last caller operation and what it returned
    browser_data,   \* the browser_data table: a bag of rows
    profiles,       \* per browser: the files of its profile directory
    cycle,          \* the update_cache call under way, or the last one
    io_log,         \* file accesses of update_cache: <<operation, file>>
    indexers,       \* the FileIndexers made and started by start_file_indexer
    file_indexer    \* SearchState.file_indexer: None or Some(k), k-th of indexers

vars == <<disk, now, store_ok, files, indexed_files, seen_lock, is_running,
          app_handle, spawned, starting, watching, channel, scanner, watcher,
          last_call, browser_data, profiles, cycle, io_log, indexers,
          file_indexer>>

browserVars == <<browser_data, profiles, cycle, io_log>>
cmdVars == <<indexers, file_indexer>>
envVars == <<disk, now, store_ok>>
threadVars == <<spawned, starting, watching, channel, scanner, watcher>>

Free == <<>>
ScannerId(t) == <<"scanner", t>>
WatcherId(t) == <<"watcher", t>>

\* the flag the closures of the t-th pair of threads hold: the is_running
\* of the FileIndexer whose start() spawned them
Running(t) ==
    IF t \in DOMAIN indexers THEN indexers[t].is_running ELSE is_running

\* the t-th watcher thread holds the guard of the app_handle mutex: it is
\* taken in the scrutinee of `if let Some(handle) = app_handle_arc.lock()...`
\* and lives to the end of that block, over the upsert and the insertion
\* into the seen set
HoldsHandle(t) == watcher[t].pc \in {"upsert", "see"}
HandleFree == \A t \in Threads : ~HoldsHandle(t)

\* visited and progress are the directories scan_dir was called on, and the
\* index:progress signals sent, in the pass under way or the last one;
\* elapsed is last_scan.elapsed() in seconds, counted up to the debounce
\* interval, and asleep the seconds of thread::sleep left
ScannerIdle == [pc |-> "idle", root |-> 0, stack |-> <<>>, cur |-> <<>>,
                entry |-> <<>>, last |-> "none", visited |-> <<>>,
                progress |-> <<>>, elapsed |-> 0, asleep |-> 0]
WatcherIdle == [pc |-> "idle", kind |-> "none", path |-> <<>>, entry |-> <<>>]
NoCall == [op |-> "none", arg |-> <<>>, ret |-> <<>>, before |-> 0]

Init ==
    /\ disk = [p \in DiskFiles |-> NoFile]
    /\ now = 0
    /\ store_ok = TRUE
    /\ files = EmptyBag
    /\ indexed_files = {}
    /\ seen_lock = Free
    /\ is_running = FALSE
    /\ app_handle = FALSE
    /\ spawned = 0
    /\ starting = 0
    /\ watching = [t \in Threads |-> FALSE]
    /\ channel = [t \in Threads |-> <<>>]
    /\ scanner = [t \in Threads |-> ScannerIdle]
    /\ watcher = [t \in Threads |-> WatcherIdle]
    /\ last_call = NoCall
    /\ browser_data = EmptyBag
    /\ profiles = [b \in BrowserType |-> NoProfile]
    /\ cycle = NoCycle
    /\ io_log = {}
    /\ indexers = <<>>
    /\ file_indexer = None

(***************************************************************************)
(* The files table (db/files.rs).                                          *)
(***************************************************************************)
\* the row an entry is stored as: hidden becomes 0/1, id is left to the store
RowOf(entry) ==
    [path |-> entry.path, filename |-> entry.filename,
     extension |-> entry.extension, size |-> entry.size,
     modified |-> entry.modified,
     hidden |-> IF entry.hidden THEN 1 ELSE 0,
     indexed |-> entry.indexed]

RowsOf(f, path_str) == {r \in BagToSet(f) : r.path = path_str}

RECURSIVE SumCopies(_, _)
SumCopies(f, rows) ==
    IF rows = {} THEN 0
    ELSE LET r == CHOOSE x \in rows : TRUE
         IN  CopiesIn(r, f) + SumCopies(f, rows \ {r})

\* SELECT COUNT(*) FROM files WHERE path = ?
CountPath(f, path_str) == SumCopies(f, RowsOf(f, path_str))

\* a plain INSERT with no conflict clause on a table with no UNIQUE(path)
upsert_file_insert_only(f, entry) == f (+) SetToBag({RowOf(entry)})

\* an upsert whose DO UPDATE leaves the size column out: the row of a path
\* that has one keeps its size and takes the other columns of the entry
upsert_file_keep_size(f, entry) ==
    IF RowsOf(f, entry.path) = {}
    THEN f (+) SetToBag({RowOf(entry)})
    ELSE LET old == CHOOSE r \in RowsOf(f, entry.path) : TRUE
         IN  (f (-) SetToBag({old}))
                 (+) SetToBag({[RowOf(entry) EXCEPT !.size = old.size]})

\* INSERT ... ON CONFLICT(path) DO UPDATE SET every other column
upsert_file(f, entry) ==
    IF RowsOf(f, entry.path) = {}
    THEN f (+) SetToBag({RowOf(entry)})
    ELSE LET old == CHOOSE r \in RowsOf(f, entry.path) : TRUE
         IN  (f (-) SetToBag({old})) (+) SetToBag({RowOf(entry)})

\* SELECT COUNT(*) FROM files
total_files(f) == BagCardinality(f)

\* DELETE FROM files WHERE path = ?1
delete_file(f, path_str) ==
    LET keep == {r \in BagToSet(f) : r.path # path_str}
    IN  [r \in keep |-> f[r]]

\* a caller operation, what it returned, and the row count it found
Call(op, arg, ret) ==
    [op |-> op, arg |-> arg, ret |-> ret, before |-> total_files(files)]

(***************************************************************************)
(* The file system.                                                        *)
(***************************************************************************)
is_dir(path) == path \in Dirs
is_file(path) == path \in DiskFiles /\ disk[path] # NoFile
exists(path) == is_dir(path) \/ is_file(path)

\* fs::read_dir(dir): the entries of dir at this moment
read_dir(dir) ==
    {p \in Dirs \cup {q \in DiskFiles : disk[q] # NoFile} :
        Len(p) > 1 /\ parent(p) = dir}

\* the FileEntry the three indexing paths build from a path and its metadata
FileEntryOf(path, meta, t) ==
    [path |-> to_string_lossy(path),
     filename |-> file_name(path),
     extension |-> extension(path),
     size |-> meta.size,
     modified |-> meta.modified,
     hidden |-> starts_with_dot(file_name(path)),
     indexed |-> t]

\* a notify event reaches the channel of every live watcher
Notify(kind, path) ==
    channel' = [t \in Threads |->
                  IF watching[t] THEN Append(channel[t], [kind |-> kind, path |-> path])
                  ELSE channel[t]]

ChannelRoom == \A t \in Threads : watching[t] => Len(channel[t]) < MaxQueue

CreateFile(path) ==
    /\ disk[path] = NoFile
    /\ ChannelRoom
    /\ disk' = [disk EXCEPT ![path] = [size |-> 1, modified |-> now]]
    /\ Notify("create", path)
    /\ UNCHANGED <<browserVars, cmdVars>>
    /\ UNCHANGED <<now, store_ok, files, indexed_files, seen_lock, is_running,
                   app_handle, spawned, starting, watching, scanner, watcher,
                   last_call>>

ModifyFile(path) ==
    /\ disk[path] # NoFile
    /\ disk[path].size = 1
    /\ ChannelRoom
    /\ disk' = [disk EXCEPT ![path] = [size |-> 2, modified |-> now]]
    /\ Notify("modify", path)
    /\ UNCHANGED <<browserVars, cmdVars>>
    /\ UNCHANGED <<now, store_ok, files, indexed_files, seen_lock, is_running,
                   app_handle, spawned, starting, watching, scanner, watcher,
                   last_call>>

RemoveFile(path) ==
    /\ disk[path] # NoFile
    /\ ChannelRoom
    /\ disk' = [disk EXCEPT ![path] = NoFile]
    /\ Notify("remove", path)
    /\ UNCHANGED <<browserVars, cmdVars>>
    /\ UNCHANGED <<now, store_ok, files, indexed_files, seen_lock, is_running,
                   app_handle, spawned, starting, watching, scanner, watcher,
                   last_call>>

Tick ==
    /\ now < MaxTime
    /\ now' = now + 1
    /\ UNCHANGED <<browserVars, cmdVars>>
    /\ UNCHANGED <<disk, store_ok, files, indexed_files, seen_lock, is_running,
                   app_handle, spawned, starting, watching, channel, scanner,
                   watcher, last_call>>

\* the application data directory becomes impossible or possible to create
\* (ensure_data_dir), and with it both database files to open
SetStore(ok) ==
    /\ store_ok # ok
    /\ store_ok' = ok
    /\ UNCHANGED <<browserVars, cmdVars>>
    /\ UNCHANGED <<disk, now, files, indexed_files, seen_lock, is_running,
                   app_handle, spawned, starting, watching, channel, scanner,
                   watcher, last_call>>

(***************************************************************************)
(* FileIndexer::start and FileIndexer::stop.                               *)
(***************************************************************************)
\* start() while the flag is set: the handle is stored, then Ok(()) at once
StartWhileRunning ==
    /\ HandleFree
    /\ is_running
    /\ app_handle' = TRUE
    /\ last_call' = Call("start", <<TRUE>>, "Ok")
    /\ UNCHANGED <<browserVars, cmdVars>>
    /\ UNCHANGED <<envVars, files, indexed_files, seen_lock, is_running,
                   threadVars>>

\* start() without the "if *running { return Ok(()) }" test
StartBegin_unguarded ==
    /\ HandleFree
    /\ starting = 0
    /\ spawned < MaxStarts
    /\ app_handle' = TRUE
    /\ is_running' = TRUE
    /\ IF store_ok
       THEN LET t == spawned + 1
            IN  /\ spawned' = t
                /\ starting' = t
                /\ scanner' = [scanner EXCEPT ![t].pc = "check"]
                /\ watching' = [watching EXCEPT ![t] = TRUE]
                /\ UNCHANGED last_call
       ELSE /\ last_call' = Call("start", <<FALSE>>, "Err")
            /\ UNCHANGED <<spawned, starting, scanner, watching>>
    /\ UNCHANGED <<browserVars, cmdVars>>
    /\ UNCHANGED <<envVars, files, indexed_files, seen_lock, channel, watcher>>

\* start() from the flag check to the watch() calls of setup_file_watcher:
\* the flag is set, the schema initialised, the scanner thread spawned, the
\* notify watcher created and watching the roots that exist
StartBegin ==
    /\ HandleFree
    /\ ~is_running
    /\ starting = 0
    /\ spawned < MaxStarts
    /\ app_handle' = TRUE
    /\ is_running' = TRUE
    /\ IF store_ok
       THEN LET t == spawned + 1
            IN  /\ spawned' = t
                /\ starting' = t
                /\ scanner' = [scanner EXCEPT ![t].pc = "check"]
                /\ watching' = [watching EXCEPT ![t] = TRUE]
                /\ UNCHANGED last_call
       ELSE /\ last_call' = Call("start", <<FALSE>>, "Err")
            /\ UNCHANGED <<spawned, starting, scanner, watching>>
    /\ UNCHANGED <<browserVars, cmdVars>>
    /\ UNCHANGED <<envVars, files, indexed_files, seen_lock, channel, watcher>>

\* the rest of setup_file_watcher: the watcher thread is spawned with the
\* receiving end of the channel; the notify watcher, a local of
\* setup_file_watcher, is dropped on return and sends no further event
StartEnd ==
    /\ starting # 0
    /\ watcher' = [watcher EXCEPT ![starting].pc = "check"]
    /\ watching' = [watching EXCEPT ![starting] = FALSE]
    /\ starting' = 0
    /\ last_call' = Call("start", <<FALSE>>, "Ok")
    /\ UNCHANGED <<browserVars, cmdVars>>
    /\ UNCHANGED <<envVars, files, indexed_files, seen_lock, is_running,
                   app_handle, spawned, channel, scanner>>

Stop ==
    /\ is_running' = FALSE
    /\ last_call' = Call("stop", <<>>, "Ok")
    /\ UNCHANGED <<browserVars, cmdVars>>
    /\ UNCHANGED <<envVars, files, indexed_files, seen_lock, app_handle,
                   threadVars>>

(***************************************************************************)
(* The periodic scanner thread: the loop of start(), and                   *)
(* scan_directory_recursive / scan_dir step by step.                       *)
(***************************************************************************)
\* a scan_dir call: its directory and the entries of entries_vec still to do
Frame(dir) == [dir |-> dir, todo |-> read_dir(dir)]

\* the first configured root at index i or later that exists, or 0
NextRoot(i) ==
    LET live == {j \in i..Len(config_paths) : exists(config_paths[j])}
    IN  IF live = {} THEN 0 ELSE CHOOSE j \in live : \A k \in live : j <= k

\* where the walk stands once every scan_dir with nothing left to do has
\* returned Ok(count): in the innermost scan_dir that has an entry left, in
\* the scan_dir of the next root that exists, or at the end of the pass
RECURSIVE Unwind(_, _)
Unwind(stack, root) ==
    IF stack = <<>>
    THEN LET j == NextRoot(root + 1)
         IN  IF j = 0
             THEN [pc |-> "check", stack |-> <<>>, root |-> 0]
             ELSE Unwind(<<Frame(config_paths[j])>>, j)
    ELSE IF stack[Len(stack)].todo = {}
    THEN Unwind(SubSeq(stack, 1, Len(stack) - 1), root)
    ELSE [pc |-> "walk", stack |-> stack, root |-> root]

\* the roots scan_directory_recursive calls scan_dir on while the walk moves
\* from stack to where Unwind leaves it
RECURSIVE RootsEntered(_, _)
RootsEntered(stack, root) ==
    IF stack = <<>>
    THEN LET j == NextRoot(root + 1)
         IN  IF j = 0 THEN <<>>
             ELSE <<config_paths[j]>> \o RootsEntered(<<Frame(config_paths[j])>>, j)
    ELSE IF stack[Len(stack)].todo = {}
    THEN RootsEntered(SubSeq(stack, 1, Len(stack) - 1), root)
    ELSE <<>>

\* the total scan_directory_recursive hands to scan_dir, which hands it on
\* to every scan_dir below
scan_total == 0

\* the "Emit progress event" block of scan_dir(dir, .., total): the signals
\* it sends (the current count of a signal is not modelled)
emit_progress(dir, total) ==
    IF total > 0
    THEN <<[total |-> total, path |-> to_string_lossy(dir), stage |-> "scanning"]>>
    ELSE <<>>

\* the scanner record after scan_dir has been called on each of dirs in turn
RECURSIVE Enter(_, _)
Enter(s, dirs) ==
    IF dirs = <<>> THEN s
    ELSE Enter([s EXCEPT !.visited = Append(@, Head(dirs)),
                         !.progress = @ \o emit_progress(Head(dirs), scan_total)],
               Tail(dirs))

\* IndexerConfig::default().debounce_ms, and the seconds the loop of
\* start() sleeps at the end of every turn
debounce_ms == 5000
sleep_secs == 10
DebounceSecs == debounce_ms \div 1000

\* the scanner record when scan_directory_recursive has returned: last_scan
\* is set to the present instant and the thread goes to sleep
PassOver(s, result) ==
    [s EXCEPT !.pc = "check", !.stack = <<>>, !.root = 0, !.cur = <<>>,
              !.entry = <<>>, !.last = result, !.elapsed = 0,
              !.asleep = sleep_secs]

\* the scanner record with the walk continued from stack
Continue(s, stack) ==
    LET u == Unwind(stack, s.root)
        entered == Enter(s, RootsEntered(stack, s.root))
    IN  IF u.pc = "check" THEN PassOver(entered, "ok")
        ELSE [entered EXCEPT !.pc = u.pc, !.stack = u.stack, !.root = u.root,
                             !.cur = <<>>, !.entry = <<>>]

\* the scanner record as a call of scan_directory_recursive finds it
NewPass(s) == [s EXCEPT !.root = 0, !.visited = <<>>, !.progress = <<>>]

Top(t) == scanner[t].stack[Len(scanner[t].stack)]

\* a scanner loop that does not end on a false flag: the next pass starts
ScannerExit_begins_pass(t) ==
    /\ scanner[t].pc = "check"
    /\ ~Running(t)
    /\ scanner' = [scanner EXCEPT ![t] = Continue(NewPass(@), <<>>)]
    /\ UNCHANGED <<browserVars, cmdVars>>
    /\ UNCHANGED <<envVars, files, indexed_files, seen_lock, is_running,
                   app_handle, spawned, starting, watching, channel, watcher,
                   last_call>>

\* the loop condition read false: the thread ends
ScannerExit(t) ==
    /\ scanner[t].pc = "check"
    /\ ~Running(t)
    /\ scanner' = [scanner EXCEPT ![t].pc = "done"]
    /\ UNCHANGED <<browserVars, cmdVars>>
    /\ UNCHANGED <<envVars, files, indexed_files, seen_lock, is_running,
                   app_handle, spawned, starting, watching, channel, watcher,
                   last_call>>

\* the loop condition read true and the debounce interval has passed:
\* scan_directory_recursive starts with the first root that exists
ScannerBegin(t) ==
    /\ scanner[t].pc = "check"
    /\ Running(t)
    /\ scanner' = [scanner EXCEPT ![t] = Continue(NewPass(@), <<>>)]
    /\ UNCHANGED <<browserVars, cmdVars>>
    /\ UNCHANGED <<envVars, files, indexed_files, seen_lock, is_running,
                   app_handle, spawned, starting, watching, channel, watcher,
                   last_call>>

\* scan_dir without the "Skip excluded directories" test
ScanEntry_no_exclusion(t) ==
    /\ scanner[t].pc = "walk"
    /\ \E e \in scanner[t].stack[Len(scanner[t].stack)].todo :
         LET rest == [scanner[t].stack EXCEPT ![Len(scanner[t].stack)].todo = @ \ {e}]
         IN  scanner' = [scanner EXCEPT ![t] =
               IF is_dir(e)
               THEN Continue(Enter(@, <<e>>), Append(rest, Frame(e)))
               ELSE IF is_file(e)
               THEN [@ EXCEPT !.stack = rest, !.pc = "lock", !.cur = e]
               ELSE Continue(@, rest)]
    /\ UNCHANGED <<browserVars, cmdVars>>
    /\ UNCHANGED <<envVars, files, indexed_files, seen_lock, is_running,
                   app_handle, spawned, starting, watching, channel, watcher,
                   last_call>>

\* scan_dir: one entry of entries_vec up to the is_dir / is_file test; a
\* directory is entered (its read_dir taken), an excluded name and an entry
\* that is neither directory nor file are passed over
ScanEntry(t) ==
    /\ scanner[t].pc = "walk"
    /\ \E e \in Top(t).todo :
         LET rest == [scanner[t].stack EXCEPT ![Len(scanner[t].stack)].todo = @ \ {e}]
         IN  scanner' = [scanner EXCEPT ![t] =
               IF file_name(e) \in excluded_dirs
               THEN Continue(@, rest)
               ELSE IF is_dir(e)
               THEN Continue(Enter(@, <<e>>), Append(rest, Frame(e)))
               ELSE IF is_file(e)
               THEN [@ EXCEPT !.stack = rest, !.pc = "lock", !.cur = e]
               ELSE Continue(@, rest)]
    /\ UNCHANGED <<browserVars, cmdVars>>
    /\ UNCHANGED <<envVars, files, indexed_files, seen_lock, is_running,
                   app_handle, spawned, starting, watching, channel, watcher,
                   last_call>>

\* scan_dir without the "Check if already indexed" test: every regular
\* file is written on every pass
ScanLock_ignore_seen(t) ==
    /\ scanner[t].pc = "lock"
    /\ seen_lock = Free
    /\ LET path == scanner[t].cur
       IN  IF ~is_file(path)
           THEN /\ scanner' = [scanner EXCEPT ![t] = PassOver(@, "err")]
                /\ UNCHANGED seen_lock
           ELSE /\ scanner' = [scanner EXCEPT ![t].pc = "store",
                                 ![t].entry = FileEntryOf(path, disk[path], now)]
                /\ seen_lock' = ScannerId(t)
    /\ UNCHANGED <<browserVars, cmdVars>>
    /\ UNCHANGED <<envVars, files, indexed_files, is_running, app_handle,
                   spawned, starting, watching, channel, watcher, last_call>>

\* scan_dir: the seen set is locked and asked; for an unseen path the
\* metadata is read and the entry built.  A metadata error leaves scan_dir,
\* every scan_dir above it and scan_directory_recursive through `?`
ScanLock(t) ==
    /\ scanner[t].pc = "lock"
    /\ seen_lock = Free
    /\ LET path == scanner[t].cur
       IN  IF path \in indexed_files
           THEN /\ scanner' = [scanner EXCEPT ![t] = Continue(@, @.stack)]
                /\ UNCHANGED seen_lock
           ELSE IF ~is_file(path)
           THEN /\ scanner' = [scanner EXCEPT ![t] = PassOver(@, "err")]
                /\ UNCHANGED seen_lock
           ELSE /\ scanner' = [scanner EXCEPT ![t].pc = "store",
                                 ![t].entry = FileEntryOf(path, disk[path], now)]
                /\ seen_lock' = ScannerId(t)
    /\ UNCHANGED <<browserVars, cmdVars>>
    /\ UNCHANGED <<envVars, files, indexed_files, is_running, app_handle,
                   spawned, starting, watching, channel, watcher, last_call>>

\* scan_dir: the row is written if the store opens, the path marked seen,
\* the lock released at the end of the block
ScanStore(t) ==
    /\ scanner[t].pc = "store"
    /\ files' = IF store_ok THEN upsert_file(files, scanner[t].entry) ELSE files
    /\ indexed_files' = indexed_files \cup {scanner[t].cur}
    /\ seen_lock' = Free
    /\ scanner' = [scanner EXCEPT ![t] = Continue(@, @.stack)]
    /\ UNCHANGED <<browserVars, cmdVars>>
    /\ UNCHANGED <<envVars, is_running, app_handle, spawned, starting, watching,
                   channel, watcher, last_call>>

ScannerStep(t) ==
    \/ ScannerExit(t)
    \/ ScannerBegin(t)
    \/ ScanEntry(t)
    \/ ScanLock(t)
    \/ ScanStore(t)

\* the scanner thread is at the head of its loop, its sleep over
Awake(t) == scanner[t].pc = "check" /\ scanner[t].asleep = 0

\* last_scan.elapsed() >= Duration::from_millis(config.debounce_ms)
Due(t) == scanner[t].elapsed >= DebounceSecs

\* a turn of the loop that finds the interval not yet over: no scan, the
\* thread sleeps
ScannerSleeps(t) ==
    /\ Awake(t)
    /\ Running(t)
    /\ ~Due(t)
    /\ scanner' = [scanner EXCEPT ![t].asleep = sleep_secs]
    /\ UNCHANGED <<browserVars, cmdVars>>
    /\ UNCHANGED <<envVars, files, indexed_files, seen_lock, is_running,
                   app_handle, spawned, starting, watching, channel, watcher,
                   last_call>>

\* one second passes for every scanner thread that has been spawned and
\* has not ended
Advance ==
    /\ \E t \in Threads :
          /\ scanner[t].pc \notin {"idle", "done"}
          /\ scanner[t].asleep > 0 \/ ~Due(t)
    /\ scanner' = [t \in Threads |->
                     IF scanner[t].pc \in {"idle", "done"} THEN scanner[t]
                     ELSE [scanner[t] EXCEPT
                              !.elapsed = IF @ < DebounceSecs THEN @ + 1 ELSE @,
                              !.asleep = IF @ > 0 THEN @ - 1 ELSE 0]]
    /\ UNCHANGED <<browserVars, cmdVars>>
    /\ UNCHANGED <<envVars, files, indexed_files, seen_lock, is_running,
                   app_handle, spawned, starting, watching, channel, watcher,
                   last_call>>

\* the loop of start() with its clock: the flag is read when the sleep is
\* over, and a pass begins only when the interval has passed
ScannerTimed(t) ==
    \/ Awake(t) /\ ScannerExit(t)
    \/ Awake(t) /\ Due(t) /\ ScannerBegin(t)
    \/ ScannerSleeps(t)
    \/ ScanEntry(t)
    \/ ScanLock(t)
    \/ ScanStore(t)

(***************************************************************************)
(* The watcher thread of setup_file_watcher.                               *)
(***************************************************************************)
\* the loop condition read false: the thread ends
WatcherExit(t) ==
    /\ watcher[t].pc = "check"
    /\ ~Running(t)
    /\ watcher' = [watcher EXCEPT ![t].pc = "done"]
    /\ UNCHANGED <<browserVars, cmdVars>>
    /\ UNCHANGED <<envVars, files, indexed_files, seen_lock, is_running,
                   app_handle, spawned, starting, watching, channel, scanner,
                   last_call>>

\* whether the watcher skips an event path: only the final name is compared
WatcherSkips(path) == file_name(path) \in excluded_dirs

\* whether the watcher locks app_handle for an event: in the Create/Modify
\* branch for a regular file, in the Remove branch always
TakesHandle(event) ==
    /\ ~WatcherSkips(event.path)
    /\ event.kind = "remove" \/ is_file(event.path)

\* recv_timeout delivers an event.  Its path is skipped when WatcherSkips;
\* Create/Modify of a regular file reads the metadata and builds the entry;
\* Remove deletes the row by path.  kind and path keep the event last received
WatcherRecv(t) ==
    /\ watcher[t].pc = "check"
    /\ Running(t)
    /\ channel[t] # <<>>
    /\ TakesHandle(Head(channel[t])) => HandleFree
    /\ LET event == Head(channel[t])
           path == event.path
           opens == app_handle /\ store_ok
           got == [watcher[t] EXCEPT !.kind = event.kind, !.path = path]
       IN  /\ channel' = [channel EXCEPT ![t] = Tail(@)]
           /\ IF WatcherSkips(path)
              THEN /\ watcher' = [watcher EXCEPT ![t] = got]
                   /\ UNCHANGED files
              ELSE IF event.kind \in {"create", "modify"}
              THEN /\ watcher' = [watcher EXCEPT ![t] =
                         IF is_file(path) /\ opens
                         THEN [got EXCEPT !.pc = "upsert",
                                          !.entry = FileEntryOf(path, disk[path], now)]
                         ELSE got]
                   /\ UNCHANGED files
              ELSE /\ files' = IF opens
                               THEN delete_file(files, to_string_lossy(path))
                               ELSE files
                   /\ watcher' = [watcher EXCEPT ![t] = [got EXCEPT !.pc = "unsee"]]
    /\ UNCHANGED <<browserVars, cmdVars>>
    /\ UNCHANGED <<envVars, indexed_files, seen_lock, is_running, app_handle,
                   spawned, starting, watching, scanner, last_call>>

\* let _ = upsert_file(&conn, &entry)
WatcherUpsert(t) ==
    /\ watcher[t].pc = "upsert"
    /\ files' = upsert_file(files, watcher[t].entry)
    /\ watcher' = [watcher EXCEPT ![t].pc = "see", ![t].entry = <<>>]
    /\ UNCHANGED <<browserVars, cmdVars>>
    /\ UNCHANGED <<envVars, indexed_files, seen_lock, is_running, app_handle,
                   spawned, starting, watching, channel, scanner, last_call>>

\* indexed_files.lock().insert(path)
WatcherSee(t) ==
    /\ watcher[t].pc = "see"
    /\ seen_lock = Free
    /\ indexed_files' = indexed_files \cup {watcher[t].path}
    /\ watcher' = [watcher EXCEPT ![t].pc = "check"]
    /\ UNCHANGED <<browserVars, cmdVars>>
    /\ UNCHANGED <<envVars, files, seen_lock, is_running, app_handle, spawned,
                   starting, watching, channel, scanner, last_call>>

\* indexed_files.lock().remove(&path)
WatcherUnsee(t) ==
    /\ watcher[t].pc = "unsee"
    /\ seen_lock = Free
    /\ indexed_files' = indexed_files \ {watcher[t].path}
    /\ watcher' = [watcher EXCEPT ![t].pc = "check"]
    /\ UNCHANGED <<browserVars, cmdVars>>
    /\ UNCHANGED <<envVars, files, seen_lock, is_running, app_handle, spawned,
                   starting, watching, channel, scanner, last_call>>

WatcherStep(t) ==
    \/ WatcherExit(t)
    \/ WatcherRecv(t)
    \/ WatcherUpsert(t)
    \/ WatcherSee(t)
    \/ WatcherUnsee(t)

(***************************************************************************)
(* The three mutexes of the indexer: is_running, indexed_files, app_handle. *)
(***************************************************************************)
Tasks == {ScannerId(t) : t \in Threads} \cup {WatcherId(t) : t \in Threads}

\* the mutexes a thread holds between two of its steps: the scanner holds
\* indexed_files from the seen test to the end of the block that writes the
\* row, the watcher holds app_handle as said at HoldsHandle.  The guard of
\* is_running is a temporary of a loop condition or of a statement and is
\* never held when another mutex is asked for
Holds(task) ==
    LET t == task[2]
    IN  IF task[1] = "scanner"
        THEN IF scanner[t].pc = "store" THEN {"indexed_files"} ELSE {}
        ELSE IF HoldsHandle(t) THEN {"app_handle"} ELSE {}

\* Needs with a scan_dir that reports through emit_progress, which locks
\* app_handle, while it holds the seen set
Needs_emitting(task) ==
    LET t == task[2]
    IN  IF task[1] = "scanner"
        THEN CASE scanner[t].pc = "check" -> {"is_running"}
               [] scanner[t].pc = "lock" -> {"indexed_files"}
               [] scanner[t].pc = "store" -> {"app_handle"}
               [] OTHER -> {}
        ELSE CASE watcher[t].pc = "check" ->
                    {"is_running"} \cup
                    IF Running(t) /\ channel[t] # <<>> /\ TakesHandle(Head(channel[t]))
                    THEN {"app_handle"} ELSE {}
               [] watcher[t].pc \in {"see", "unsee"} -> {"indexed_files"}
               [] OTHER -> {}

\* the mutexes the next step of a thread locks
Needs(task) ==
    LET t == task[2]
    IN  IF task[1] = "scanner"
        THEN CASE scanner[t].pc = "check" -> {"is_running"}
               [] scanner[t].pc = "lock" -> {"indexed_files"}
               [] OTHER -> {}
        ELSE CASE watcher[t].pc = "check" ->
                    {"is_running"} \cup
                    IF Running(t) /\ channel[t] # <<>> /\ TakesHandle(Head(channel[t]))
                    THEN {"app_handle"} ELSE {}
               [] watcher[t].pc \in {"see", "unsee"} -> {"indexed_files"}
               [] OTHER -> {}

(***************************************************************************)
(* FileIndexer::index_paths, the index_files command, and the store's      *)
(* upsert_file / delete_file called directly.                              *)
(***************************************************************************)
\* the regular files a scan_dir of dir with an empty seen set writes: the
\* walk skips every entry whose name is excluded and descends into the rest
RECURSIVE WalkFiles(_)
WalkFiles(dir) ==
    UNION {IF file_name(e) \in excluded_dirs THEN {}
           ELSE IF is_dir(e) THEN WalkFiles(e)
           ELSE IF is_file(e) THEN {e}
           ELSE {} : e \in read_dir(dir)}

RECURSIVE UpsertAll(_, _, _)
UpsertAll(f, paths, t) ==
    IF paths = {} THEN f
    ELSE LET p == CHOOSE x \in paths : TRUE
         IN  UpsertAll(upsert_file(f, FileEntryOf(p, disk[p], t)), paths \ {p}, t)

\* the loop of index_paths over paths[i..]: the table, the seen set of self
\* and the count it ends with
RECURSIVE IndexLoop(_, _, _, _, _)
IndexLoop(paths, i, f, seen, count) ==
    IF i > Len(paths) THEN [files |-> f, seen |-> seen, count |-> count]
    ELSE LET path == paths[i]
         IN  IF ~exists(path)
             THEN IndexLoop(paths, i + 1, f, seen, count)
             ELSE IF is_dir(path)
             THEN IndexLoop(paths, i + 1,
                            IF store_ok THEN UpsertAll(f, WalkFiles(path), now)
                            ELSE f,
                            seen, count)
             ELSE IndexLoop(paths, i + 1,
                            IF store_ok
                            THEN upsert_file(f, FileEntryOf(path, disk[path], now))
                            ELSE f,
                            seen \cup {path}, count + 1)

\* index_paths on the indexer: the seen set stays locked for the whole call
index_paths(paths) ==
    /\ seen_lock = Free
    /\ LET r == IndexLoop(paths, 1, files, indexed_files, 0)
       IN  /\ files' = r.files
           /\ indexed_files' = r.seen
           /\ last_call' = Call("index_paths", paths, r.count)
    /\ UNCHANGED <<browserVars, cmdVars>>
    /\ UNCHANGED <<envVars, seen_lock, is_running, app_handle, threadVars>>

\* the index_files command: index_paths on a FileIndexer made for the call
index_files(paths) ==
    /\ LET r == IndexLoop(paths, 1, files, {}, 0)
       IN  /\ files' = r.files
           /\ last_call' = Call("index_files", paths, r.count)
    /\ UNCHANGED <<browserVars, cmdVars>>
    /\ UNCHANGED <<envVars, indexed_files, seen_lock, is_running, app_handle,
                   threadVars>>

\* the start_file_indexer command: a FileIndexer is made and started and, if
\* start() returned Ok, stored in SearchState in place of whatever was held
\* there.  start() on the new indexer sets its flag, initialises the schema
\* and spawns its scanner and its watcher thread; the notify watcher is
\* dropped when setup_file_watcher returns.  When the schema cannot be
\* initialised the command returns Err and the new indexer is dropped
start_file_indexer ==
    /\ starting = 0
    /\ spawned < MaxStarts
    /\ IF store_ok
       THEN LET k == spawned + 1
            IN  /\ spawned' = k
                /\ indexers' = (k :> [is_running |-> TRUE]) @@ indexers
                /\ scanner' = [scanner EXCEPT ![k].pc = "check"]
                /\ watcher' = [watcher EXCEPT ![k].pc = "check"]
                /\ file_indexer' = Some(k)
                /\ last_call' = Call("start_file_indexer", <<>>, "Ok")
       ELSE /\ last_call' = Call("start_file_indexer", <<>>, "Err")
            /\ UNCHANGED <<spawned, indexers, scanner, watcher, file_indexer>>
    /\ UNCHANGED browserVars
    /\ UNCHANGED <<envVars, files, indexed_files, seen_lock, is_running,
                   app_handle, starting, watching, channel>>

\* the stop_file_indexer command: stop() on the indexer SearchState holds,
\* which is then taken out; Ok(()) whether or not one was held
stop_file_indexer ==
    /\ IF file_indexer # None
       THEN /\ indexers' = [indexers EXCEPT ![file_indexer[1]].is_running = FALSE]
            /\ file_indexer' = None
       ELSE UNCHANGED <<indexers, file_indexer>>
    /\ last_call' = Call("stop_file_indexer", <<>>, "Ok")
    /\ UNCHANGED browserVars
    /\ UNCHANGED <<envVars, files, indexed_files, seen_lock, is_running,
                   app_handle, threadVars>>

\* db::files::upsert_file called with an entry for path
UpsertFileCall(path, size) ==
    /\ store_ok
    /\ files' = upsert_file(files,
                    FileEntryOf(path, [size |-> size, modified |-> now], now))
    /\ last_call' = Call("upsert_file", <<path>>, "Ok")
    /\ UNCHANGED <<browserVars, cmdVars>>
    /\ UNCHANGED <<envVars, indexed_files, seen_lock, is_running, app_handle,
                   threadVars>>

\* db::files::delete_file called with a path
DeleteFileCall(path) ==
    /\ store_ok
    /\ files' = delete_file(files, to_string_lossy(path))
    /\ last_call' = Call("delete_file", <<path>>, "Ok")
    /\ UNCHANGED <<browserVars, cmdVars>>
    /\ UNCHANGED <<envVars, indexed_files, seen_lock, is_running, app_handle,
                   threadVars>>

(***************************************************************************)
(* db::files::search_files and FileIndexer::search.                        *)
(***************************************************************************)
\* the byte of each character that occurs in a filename or a query
Byte ==
    ("%" :> 37) @@ ("." :> 46) @@ ("A" :> 65) @@ ("T" :> 84) @@ ("_" :> 95) @@
    ("a" :> 97) @@ ("b" :> 98) @@ ("d" :> 100) @@ ("e" :> 101) @@
    ("n" :> 110) @@ ("t" :> 116) @@ ("v" :> 118) @@ ("x" :> 120)

Rest(s) == SubSeq(s, 2, Len(s))

\* LIKE compares ASCII letters without regard to case
FoldCase(c) == IF Byte[c] \in 65..90 THEN Byte[c] + 32 ELSE Byte[c]

\* s LIKE pattern: % stands for any run of characters, _ for any one
\* character, every other character for itself in either case
RECURSIVE Like(_, _)
Like(pattern, s) ==
    IF pattern = "" THEN s = ""
    ELSE IF SubSeq(pattern, 1, 1) = "%"
    THEN Like(Rest(pattern), s) \/ (s # "" /\ Like(pattern, Rest(s)))
    ELSE /\ s # ""
         /\ \/ SubSeq(pattern, 1, 1) = "_"
            \/ FoldCase(SubSeq(pattern, 1, 1)) = FoldCase(SubSeq(s, 1, 1))
         /\ Like(Rest(pattern), Rest(s))

\* ORDER BY filename ASC: the column has the BINARY collation, which
\* compares byte by byte
RECURSIVE BinaryLeq(_, _)
BinaryLeq(a, b) ==
    IF a = "" THEN TRUE
    ELSE IF b = "" THEN FALSE
    ELSE \/ Byte[SubSeq(a, 1, 1)] < Byte[SubSeq(b, 1, 1)]
         \/ /\ SubSeq(a, 1, 1) = SubSeq(b, 1, 1)
            /\ BinaryLeq(Rest(a), Rest(b))

\* the results search_files may return: the rows whose filename is LIKE
\* %query%, in ascending filename order (rows of equal filename in any
\* order), cut after limit rows
search_files(f, query, limit) ==
    LET pattern == "%" \o query \o "%"
        hits == {r \in BagToSet(f) : Like(pattern, r.filename)}
        n == Cardinality(hits)
        orders == {o \in [1..n -> hits] :
                     /\ \A i, j \in 1..n : i # j => o[i] # o[j]
                     /\ \A i \in 1..(n - 1) :
                            BinaryLeq(o[i].filename, o[i + 1].filename)}
    IN  {SubSeq(o, 1, IF limit < n THEN limit ELSE n) : o \in orders}

\* FileIndexer::search: the store is opened, then search_files
search(query, limit) ==
    /\ IF store_ok
       THEN \E rows \in search_files(files, query, limit) :
               last_call' = Call("search", <<query, limit>>, rows)
       ELSE last_call' = Call("search", <<query, limit>>, "Err")
    /\ UNCHANGED <<browserVars, cmdVars>>
    /\ UNCHANGED <<envVars, files, indexed_files, seen_lock, is_running,
                   app_handle, threadVars>>

\* SELECT SUM(size) over rows
RECURSIVE SumSize(_, _)
SumSize(f, rows) ==
    IF rows = {} THEN 0
    ELSE LET r == CHOOSE x \in rows : TRUE
         IN  CopiesIn(r, f) * r.size + SumSize(f, rows \ {r})

\* db::files::get_index_stats: SUM(size) of an empty table is NULL, which
\* unwrap_or turns into 0
get_index_stats(f) ==
    [total_files |-> total_files(f), total_size |-> SumSize(f, BagToSet(f))]

\* FileIndexer::get_stats: the store is opened, then get_index_stats
get_stats ==
    /\ last_call' = Call("get_stats", <<>>,
                         IF store_ok THEN get_index_stats(files) ELSE "Err")
    /\ UNCHANGED <<browserVars, cmdVars>>
    /\ UNCHANGED <<envVars, files, indexed_files, seen_lock, is_running,
                   app_handle, threadVars>>

(***************************************************************************)
(* The browser cache: db/browser.rs and services/browser_reader.rs.        *)
(*                                                                         *)
(* An i64 too wide for the checker's integers is the triple <<hi, lo, u>>  *)
(* of the non-negative number (hi * 10^6 + lo) * 10^6 + u; Safari's f64 is *)
(* a sign, a whole part and a number of millionths.                        *)
(***************************************************************************)
\* an instant, s seconds and u microseconds after the Unix epoch, as
\* Chromium writes it: microseconds since 1601-01-01
ChromiumTime(inst) ==
    LET lo == (inst.s % 1000000) + 473600
    IN  <<(inst.s \div 1000000) + 11644 + (lo \div 1000000),
          lo % 1000000, inst.u>>

\* as Firefox writes it: microseconds since 1970-01-01
PRTime(inst) == <<inst.s \div 1000000, inst.s % 1000000, inst.u>>

\* as Safari writes it: seconds since 2001-01-01, a floating-point number
CFAbsoluteTime(inst) ==
    LET d == inst.s - 978307200
    IN  IF d >= 0 THEN [neg |-> FALSE, whole |-> d, micro |-> inst.u]
        ELSE IF inst.u = 0 THEN [neg |-> TRUE, whole |-> -d, micro |-> 0]
        ELSE [neg |-> TRUE, whole |-> -d - 1, micro |-> 1000000 - inst.u]

\* (last_visit_time / 1_000_000) - 11_644_473_600
chrome_unix_timestamp(t) == (t[1] - 11644) * 1000000 + (t[2] - 473600)

\* last_visit_date / 1_000_000
firefox_unix_timestamp(t) == t[1] * 1000000 + t[2]

\* the Safari conversion without the offset of the 2001 epoch
safari_unix_timestamp_no_offset(t) == IF t.neg THEN -t.whole ELSE t.whole

\* last_visit_time as i64 + 978_307_200: the cast drops the fraction
safari_unix_timestamp(t) ==
    (IF t.neg THEN -t.whole ELSE t.whole) + 978307200

\* title.unwrap_or_else(|| "Untitled".to_string())
TitleOr(title) == IF title = None THEN "Untitled" ELSE title[1]

\* a BrowserEntry; id, favicon and folder are None in every entry built
BrowserEntry(url, title, browser, entry_type, visit_count, last_visited, t) ==
    [url |-> url, title |-> title, browser |-> browser,
     entry_type |-> entry_type, visit_count |-> visit_count,
     last_visited |-> last_visited, cached |-> t]

MapSeq(items, Op(_)) == [i \in 1..Len(items) |-> Op(items[i])]

\* copy_to_temp and Connection::open of the copy
CopyAndOpen(b, file) ==
    {<<"read", b, file>>, <<"write", "temp", file>>, <<"open", "temp", file>>}

\* read_chrome_history with Connection::open(history_path): no copy
read_chrome_history_live(b, history, t) ==
    [ok |-> history.state = "ok",
     entries |->
        IF history.state = "ok"
        THEN MapSeq(history.items,
                 LAMBDA h : BrowserEntry(h.url, TitleOr(h.title), "chrome",
                                "history", h.visit_count,
                                Some(chrome_unix_timestamp(h.time)), t))
        ELSE <<>>,
     io |-> {<<"open", b, "History">>}]

\* read_chrome_history: Err when the copy is no history database
read_chrome_history(b, history, t) ==
    [ok |-> history.state = "ok",
     entries |->
        IF history.state = "ok"
        THEN MapSeq(history.items,
                 LAMBDA h : BrowserEntry(h.url, TitleOr(h.title), "chrome",
                                "history", h.visit_count,
                                Some(chrome_unix_timestamp(h.time)), t))
        ELSE <<>>,
     io |-> CopyAndOpen(b, "History")]

\* a node of the bookmarks JSON is a record of the fields it has: type,
\* name (None when it is no string), url, children
Has(node, field) == field \in DOMAIN node

\* the extraction taking the url entries of the array alone, folders passed
\* over
RECURSIVE extract_top_level_only(_, _)
extract_top_level_only(children, t) ==
    IF children = <<>> THEN <<>>
    ELSE LET child == Head(children)
         IN  (IF Has(child, "type") /\ child.type = "folder" THEN <<>>
              ELSE IF Has(child, "url")
              THEN <<BrowserEntry(child.url,
                         IF Has(child, "name") THEN TitleOr(child.name)
                         ELSE "Untitled",
                         "chrome", "bookmark", 0, None, t)>>
              ELSE <<>>)
             \o extract_top_level_only(Tail(children), t)

\* extract_chrome_bookmark_children: a child of type folder is descended
\* into when it has children, any other child with a url gives an entry
RECURSIVE extract_chrome_bookmark_children(_, _)
extract_chrome_bookmark_children(children, t) ==
    IF children = <<>> THEN <<>>
    ELSE LET child == Head(children)
         IN  (IF Has(child, "type") /\ child.type = "folder"
              THEN IF Has(child, "children")
                   THEN extract_chrome_bookmark_children(child.children, t)
                   ELSE <<>>
              ELSE IF Has(child, "url")
              THEN <<BrowserEntry(child.url,
                         IF Has(child, "name") THEN TitleOr(child.name)
                         ELSE "Untitled",
                         "chrome", "bookmark", 0, None, t)>>
              ELSE <<>>)
             \o extract_chrome_bookmark_children(Tail(children), t)

\* extract_chrome_bookmarks: the children of every root, root after root
RECURSIVE extract_chrome_bookmarks(_, _)
extract_chrome_bookmarks(roots, t) ==
    IF roots = <<>> THEN <<>>
    ELSE (IF Has(Head(roots), "children")
          THEN extract_chrome_bookmark_children(Head(roots).children, t)
          ELSE <<>>)
         \o extract_chrome_bookmarks(Tail(roots), t)

\* read_chrome_data: the bookmarks that parse, then the history that reads
read_chrome_data(b, profile, t) ==
    LET marks == IF profile.bookmarks.state = "ok"
                 THEN extract_chrome_bookmarks(profile.bookmarks.items, t)
                 ELSE <<>>
        hist == IF profile.history.state = "absent"
                THEN [ok |-> FALSE, entries |-> <<>>, io |-> {}]
                ELSE read_chrome_history(b, profile.history, t)
    IN  [ok |-> TRUE,
         entries |-> marks \o hist.entries,
         io |-> hist.io \cup
                (IF profile.bookmarks.state = "absent" THEN {}
                 ELSE {<<"read", b, "Bookmarks">>})]

\* read_firefox_data
read_firefox_data(b, profile, t) ==
    IF profile.history.state = "absent"
    THEN [ok |-> TRUE, entries |-> <<>>, io |-> {}]
    ELSE IF profile.history.state = "corrupt"
    THEN [ok |-> FALSE, entries |-> <<>>, io |-> CopyAndOpen(b, "places.sqlite")]
    ELSE [ok |-> TRUE,
          entries |->
             MapSeq(profile.bookmarks.items,
                 LAMBDA m : BrowserEntry(m.url, TitleOr(m.title), "firefox",
                                "bookmark", 0,
                                Some(firefox_unix_timestamp(m.time)), t))
             \o MapSeq(SelectSeq(profile.history.items,
                                 LAMBDA h : h.visit_count > 0),
                 LAMBDA h : BrowserEntry(h.url, TitleOr(h.title), "firefox",
                                "history", h.visit_count,
                                Some(firefox_unix_timestamp(h.time)), t)),
          io |-> CopyAndOpen(b, "places.sqlite")]

\* read_safari_data
read_safari_data(b, profile, t) ==
    IF profile.history.state = "absent"
    THEN [ok |-> TRUE, entries |-> <<>>, io |-> {}]
    ELSE IF profile.history.state = "corrupt"
    THEN [ok |-> FALSE, entries |-> <<>>, io |-> CopyAndOpen(b, "History.db")]
    ELSE [ok |-> TRUE,
          entries |->
             MapSeq(profile.history.items,
                 LAMBDA h : BrowserEntry(h.url, TitleOr(h.title), "safari",
                                "history", h.visit_count,
                                Some(safari_unix_timestamp(h.time)), t)),
          io |-> CopyAndOpen(b, "History.db")]

\* read_browser_data; read_edge_data is read_chrome_data on Edge's directory
read_browser_data(b, profile, t) ==
    IF ~profile.dir THEN [ok |-> FALSE, entries |-> <<>>, io |-> {}]
    ELSE IF b = "Firefox" THEN read_firefox_data(b, profile, t)
    ELSE IF b = "Safari" THEN read_safari_data(b, profile, t)
    ELSE read_chrome_data(b, profile, t)

\* the column lists init_browser_db declares PRIMARY KEY or UNIQUE: the
\* three indexes it creates on url, on title and on (browser, type) are
\* plain indexes
browser_data_unique == {<<"id">>}

\* upsert_browser_entry under a schema whose unique column lists are unique:
\* INSERT ... ON CONFLICT(url, browser) DO UPDATE is an error, and writes
\* nothing, unless (url, browser) is one of them; otherwise the row is
\* inserted, or the row of that url and browser takes the entry's columns
upsert_with_schema(unique, table, entry) ==
    IF <<"url", "browser">> \notin unique
    THEN [ok |-> FALSE, table |-> table]
    ELSE LET old == {r \in BagToSet(table) :
                        r.url = entry.url /\ r.browser = entry.browser}
             kept == [r \in BagToSet(table) \ old |-> CopiesIn(r, table)]
         IN  [ok |-> TRUE, table |-> kept (+) SetToBag({entry})]

upsert_browser_entry(table, entry) ==
    upsert_with_schema(browser_data_unique, table, entry)

\* the loop of update_cache over the entries of one browser: the result of
\* each upsert_browser_entry is dropped
RECURSIVE UpsertEntries(_, _)
UpsertEntries(table, entries) ==
    IF entries = <<>> THEN table
    ELSE UpsertEntries(upsert_browser_entry(table, Head(entries)).table,
                       Tail(entries))

\* expire_cache deleting the rows of age exactly the expiry as well
expire_cache_inclusive(table, t) ==
    LET expiry_time == t - (cache_expiry_minutes * 60)
    IN  [r \in {x \in BagToSet(table) : ~(x.cached <= expiry_time)} |->
             CopiesIn(r, table)]

\* expire_cache at time t: DELETE FROM browser_data WHERE cached < ?1
expire_cache(table, t) ==
    LET expiry_time == t - (cache_expiry_minutes * 60)
    IN  [r \in {x \in BagToSet(table) : ~(x.cached < expiry_time)} |->
             CopiesIn(r, table)]

\* update_cache up to the loop: the store is opened and old rows expire
UpdateCacheBegin ==
    /\ cycle.pc = "idle"
    /\ IF store_ok
       THEN /\ browser_data' = expire_cache(browser_data, now)
            /\ cycle' = [pc |-> "loop", i |-> 1, count |-> 0,
                         entries |-> <<>>, from |-> <<>>, written |-> 0,
                         failed |-> {},
                         expired |-> BagCardinality(browser_data) -
                            BagCardinality(expire_cache(browser_data, now))]
            /\ io_log' = {}
            /\ UNCHANGED last_call
       ELSE /\ last_call' = Call("update_cache", <<>>, "Err")
            /\ UNCHANGED <<browser_data, cycle, io_log>>
    /\ UNCHANGED <<profiles, envVars, cmdVars, files, indexed_files, seen_lock,
                   is_running, app_handle, threadVars>>

\* update_cache with `?` on read_browser_data: a browser that cannot be
\* read ends the call with Err
UpdateCacheRead_abort ==
    /\ cycle.pc = "loop"
    /\ cycle.i <= Len(enabled_browsers)
    /\ LET b == enabled_browsers[cycle.i]
           r == read_browser_data(b, profiles[b], now)
       IN  /\ io_log' = io_log \cup r.io
           /\ IF ~r.ok \/ ~store_ok
              THEN /\ cycle' = [cycle EXCEPT !.pc = "idle"]
                   /\ last_call' = Call("update_cache", <<>>, "Err")
                   /\ UNCHANGED browser_data
              ELSE /\ browser_data' = UpsertEntries(browser_data, r.entries)
                   /\ cycle' = [cycle EXCEPT !.i = @ + 1,
                                  !.count = @ + Len(r.entries),
                                  !.entries = @ \o r.entries,
                                  !.from = @ \o [k \in 1..Len(r.entries) |-> b]]
                   /\ UNCHANGED last_call
    /\ UNCHANGED <<profiles, envVars, cmdVars, files, indexed_files, seen_lock,
                   is_running, app_handle, threadVars>>

\* update_cache with the expire step inside the loop: old rows expire at
\* every turn that reads a browser
UpdateCacheRead_expiring ==
    /\ cycle.pc = "loop"
    /\ cycle.i <= Len(enabled_browsers)
    /\ LET b == enabled_browsers[cycle.i]
           r == read_browser_data(b, profiles[b], now)
       IN  /\ io_log' = io_log \cup r.io
           /\ IF ~r.ok
              THEN /\ cycle' = [cycle EXCEPT !.i = @ + 1,
                                             !.failed = @ \cup {b}]
                   /\ UNCHANGED <<browser_data, last_call>>
              ELSE IF ~store_ok
              THEN /\ cycle' = [cycle EXCEPT !.pc = "idle"]
                   /\ last_call' = Call("update_cache", <<>>, "Err")
                   /\ UNCHANGED browser_data
              ELSE /\ browser_data' =
                         UpsertEntries(expire_cache(browser_data, now), r.entries)
                   /\ cycle' = [cycle EXCEPT !.i = @ + 1,
                                  !.count = @ + Len(r.entries),
                                  !.entries = @ \o r.entries,
                                  !.from = @ \o [k \in 1..Len(r.entries) |-> b]]
                   /\ UNCHANGED last_call
    /\ UNCHANGED <<profiles, envVars, cmdVars, files, indexed_files, seen_lock,
                   is_running, app_handle, threadVars>>

\* one turn of the loop: the browser's data is read; on Ok the store is
\* opened and every entry upserted and counted, on Err the loop goes on
UpdateCacheRead ==
    /\ cycle.pc = "loop"
    /\ cycle.i <= Len(enabled_browsers)
    /\ LET b == enabled_browsers[cycle.i]
           r == read_browser_data(b, profiles[b], now)
       IN  /\ io_log' = io_log \cup r.io
           /\ IF ~r.ok
              THEN /\ cycle' = [cycle EXCEPT !.i = @ + 1,
                                             !.failed = @ \cup {b}]
                   /\ UNCHANGED <<browser_data, last_call>>
              ELSE IF ~store_ok
              THEN /\ cycle' = [cycle EXCEPT !.pc = "idle"]
                   /\ last_call' = Call("update_cache", <<>>, "Err")
                   /\ UNCHANGED browser_data
              ELSE /\ browser_data' = UpsertEntries(browser_data, r.entries)
                   /\ cycle' = [cycle EXCEPT !.i = @ + 1,
                                  !.count = @ + Len(r.entries),
                                  !.entries = @ \o r.entries,
                                  !.from = @ \o [k \in 1..Len(r.entries) |-> b],
                                  !.written = @ + Len(SelectSeq(r.entries,
                                      LAMBDA e :
                                        upsert_browser_entry(browser_data, e).ok))]
                   /\ UNCHANGED last_call
    /\ UNCHANGED <<profiles, envVars, cmdVars, files, indexed_files, seen_lock,
                   is_running, app_handle, threadVars>>

\* the loop is over: Ok(count)
UpdateCacheEnd ==
    /\ cycle.pc = "loop"
    /\ cycle.i > Len(enabled_browsers)
    /\ cycle' = [cycle EXCEPT !.pc = "idle"]
    /\ last_call' = Call("update_cache", <<>>, cycle.count)
    /\ UNCHANGED <<browser_data, profiles, io_log, envVars, cmdVars, files,
                   indexed_files, seen_lock, is_running, app_handle,
                   threadVars>>

update_cache == UpdateCacheBegin \/ UpdateCacheRead \/ UpdateCacheEnd

\* a browser rewrites the files of its profile
SetProfile(b, profile) ==
    /\ profiles' = [profiles EXCEPT ![b] = profile]
    /\ UNCHANGED <<browser_data, cycle, io_log, envVars, cmdVars, files,
                   indexed_files, seen_lock, is_running, app_handle,
                   threadVars, last_call>>

\* ORDER BY visitCount DESC, lastVisited DESC: whether row a may come
\* before row b; a NULL lastVisited sorts after every value
MayPrecede(a, b) ==
    \/ a.visit_count > b.visit_count
    \/ /\ a.visit_count = b.visit_count
       /\ \/ b.last_visited = None
          \/ /\ a.last_visited # None
             /\ a.last_visited[1] >= b.last_visited[1]

\* the results search_browser_data may return: the rows whose title or url
\* is LIKE %query%, in that order, cut after limit rows
search_browser_data(table, query, limit) ==
    LET pattern == "%" \o query \o "%"
        hits == {r \in BagToSet(table) :
                    Like(pattern, r.title) \/ Like(pattern, r.url)}
        n == Cardinality(hits)
        orders == {o \in [1..n -> hits] :
                     /\ \A i, j \in 1..n : i # j => o[i] # o[j]
                     /\ \A i \in 1..(n - 1) : MayPrecede(o[i], o[i + 1])}
    IN  {SubSeq(o, 1, IF limit < n THEN limit ELSE n) : o \in orders}

\* a search that expires old rows first, as update_cache does
browser_search_expiring(query, limit) ==
    /\ IF store_ok
       THEN /\ browser_data' = expire_cache(browser_data, now)
            /\ \E rows \in search_browser_data(browser_data', query, limit) :
                  last_call' = Call("browser_search", <<query, limit>>, rows)
       ELSE /\ last_call' = Call("browser_search", <<query, limit>>, "Err")
            /\ UNCHANGED browser_data
    /\ UNCHANGED <<profiles, cycle, io_log, envVars, cmdVars, files, indexed_files,
                   seen_lock, is_running, app_handle, threadVars>>

\* BrowserReader::search: the store is opened, then search_browser_data
browser_search(query, limit) ==
    /\ IF store_ok
       THEN \E rows \in search_browser_data(browser_data, query, limit) :
               last_call' = Call("browser_search", <<query, limit>>, rows)
       ELSE last_call' = Call("browser_search", <<query, limit>>, "Err")
    /\ UNCHANGED <<browserVars, envVars, cmdVars, files, indexed_files, seen_lock,
                   is_running, app_handle, threadVars>>

\* SELECT COUNT(*) FROM browser_data WHERE type = ?
CountType(table, entry_type) ==
    BagCardinality([r \in {x \in BagToSet(table) : x.entry_type = entry_type}
                        |-> table[r]])

\* db::browser::get_cache_stats
get_cache_stats_of(table) ==
    [bookmarks |-> CountType(table, "bookmark"),
     history |-> CountType(table, "history")]

\* BrowserReader::get_cache_stats: the store is opened, then get_cache_stats
get_cache_stats ==
    /\ last_call' = Call("get_cache_stats", <<>>,
                         IF store_ok THEN get_cache_stats_of(browser_data)
                         ELSE "Err")
    /\ UNCHANGED <<browserVars, envVars, cmdVars, files, indexed_files, seen_lock,
                   is_running, app_handle, threadVars>>

(***************************************************************************)
(* The unified_search command (cmds/search.rs) over the application list.  *)
(*                                                                         *)
(* Strings are ASCII.  An f64 score is a number of hundredths, or minus     *)
(* infinity.                                                               *)
(***************************************************************************)
UpperCase == "ABCDEFGHIJKLMNOPQRSTUVWXYZ"
LowerCase == "abcdefghijklmnopqrstuvwxyz"
Digits == "0123456789"

\* the place of character c in alphabet, or 0
IndexIn(c, alphabet) ==
    LET at == {i \in 1..Len(alphabet) : SubSeq(alphabet, i, i) = c}
    IN  IF at = {} THEN 0 ELSE CHOOSE i \in at : TRUE

char_to_lowercase(c) ==
    LET i == IndexIn(c, UpperCase)
    IN  IF i = 0 THEN c ELSE SubSeq(LowerCase, i, i)

RECURSIVE to_lowercase(_)
to_lowercase(s) ==
    IF s = "" THEN ""
    ELSE char_to_lowercase(SubSeq(s, 1, 1)) \o to_lowercase(Rest(s))

is_ascii_lowercase(c) == IndexIn(c, LowerCase) # 0

is_alphanumeric(c) ==
    IndexIn(c, LowerCase) # 0 \/ IndexIn(c, UpperCase) # 0 \/ IndexIn(c, Digits) # 0

contains(s, q) ==
    \E i \in 0..(Len(s) - Len(q)) : SubSeq(s, i + 1, i + Len(q)) = q

starts_with(s, q) == Len(q) <= Len(s) /\ SubSeq(s, 1, Len(q)) = q

ends_with(s, q) ==
    Len(q) <= Len(s) /\ SubSeq(s, Len(s) - Len(q) + 1, Len(s)) = q

\* str::trim, the white space being the space character
RECURSIVE trim(_)
trim(s) ==
    IF s = "" THEN ""
    ELSE IF SubSeq(s, 1, 1) = " " THEN trim(Rest(s))
    ELSE IF SubSeq(s, Len(s), Len(s)) = " " THEN trim(SubSeq(s, 1, Len(s) - 1))
    ELSE s

RECURSIVE trim_end_matches(_, _)
trim_end_matches(s, suffix) ==
    IF ends_with(s, suffix)
    THEN trim_end_matches(SubSeq(s, 1, Len(s) - Len(suffix)), suffix)
    ELSE s

\* split('/'): the segments of s, cur being the segment under way
RECURSIVE SplitSlash(_, _)
SplitSlash(s, cur) ==
    IF s = "" THEN <<cur>>
    ELSE IF SubSeq(s, 1, 1) = "/" THEN <<cur>> \o SplitSlash(Rest(s), "")
    ELSE SplitSlash(Rest(s), cur \o SubSeq(s, 1, 1))

\* split(|c| !c.is_alphanumeric()).filter(|s| !s.is_empty())
RECURSIVE Words(_, _)
Words(s, cur) ==
    IF s = "" THEN (IF cur = "" THEN <<>> ELSE <<cur>>)
    ELSE IF is_alphanumeric(SubSeq(s, 1, 1))
    THEN Words(Rest(s), cur \o SubSeq(s, 1, 1))
    ELSE (IF cur = "" THEN <<>> ELSE <<cur>>) \o Words(Rest(s), "")

\* the first character of each word of s, collected into a string
RECURSIVE FirstChars(_)
FirstChars(words) ==
    IF words = <<>> THEN ""
    ELSE SubSeq(Head(words), 1, 1) \o FirstChars(Tail(words))

initials(s) == FirstChars(Words(s, ""))

\* the name of the first path segment that ends with ".app", in lower case
app_name_from_path(executable_path) ==
    LET segs == SplitSlash(executable_path, "")
        hits == {i \in 1..Len(segs) : ends_with(segs[i], ".app")}
    IN  IF hits = {} THEN ""
        ELSE to_lowercase(trim_end_matches(
                 segs[CHOOSE i \in hits : \A j \in hits : i <= j], ".app"))

\* initialism matching without its test of the query
initialism_enabled_unguarded(query_lower) == TRUE

\* the query is two or more ASCII lower-case letters
initialism_enabled(query_lower) ==
    /\ \A i \in 1..Len(query_lower) : is_ascii_lowercase(SubSeq(query_lower, i, i))
    /\ Len(query_lower) >= 2

\* models::app::ApplicationEntry (icon, app_path, last_launched and platform
\* are not read by the filter or the score)
ApplicationEntry(id, name, executable_path, usage_count, alternate_names) ==
    [id |-> id, name |-> name, executable_path |-> executable_path,
     usage_count |-> usage_count, alternate_names |-> alternate_names]

\* the filter closure of unified_search
matches(app, query) ==
    LET query_lower == to_lowercase(query)
        name_matches == contains(to_lowercase(app.name), query_lower)
        from_path == app_name_from_path(app.executable_path)
        path_app_name_matches == from_path # "" /\ contains(from_path, query_lower)
        alternate_matches ==
            /\ app.alternate_names # None
            /\ \E k \in 1..Len(app.alternate_names[1]) :
                  contains(to_lowercase(app.alternate_names[1][k]), query_lower)
        initialism_matches ==
            /\ initialism_enabled(query_lower)
            /\ \/ starts_with(to_lowercase(initials(app.name)), query_lower)
               \/ starts_with(initials(from_path), query_lower)
    IN  name_matches \/ path_app_name_matches \/ alternate_matches
            \/ initialism_matches

\* apps.iter().filter(..), or every app when the trimmed query is empty
RECURSIVE Filter(_, _)
Filter(apps, query) ==
    IF apps = <<>> THEN <<>>
    ELSE (IF matches(Head(apps), query) THEN <<Head(apps)>> ELSE <<>>)
            \o Filter(Tail(apps), query)

filtered(apps, query) ==
    IF trim(query) = "" THEN apps ELSE Filter(apps, query)

\* f64 values: a finite number of hundredths, and minus infinity
Finite(h) == [neg_inf |-> FALSE, hundredths |-> h]
NegInf == [neg_inf |-> TRUE, hundredths |-> 0]
Plus(a, b) ==
    IF a.neg_inf \/ b.neg_inf THEN NegInf ELSE Finite(a.hundredths + b.hundredths)
\* a >= b
ScoreGeq(a, b) == b.neg_inf \/ (~a.neg_inf /\ a.hundredths >= b.hundredths)
\* a > b
ScoreGt(a, b) == ~ScoreGeq(b, a)

\* f64::log10 of a power of ten (the usage counts of the model are 0 and
\* powers of ten)
RECURSIVE log10(_)
log10(n) == IF n = 1 THEN 0 ELSE 1 + log10(n \div 10)

\* (usage_count as f64).log10() / 10.0: log10 of 0.0 is minus infinity
frequency_boost(usage_count) ==
    IF usage_count = 0 THEN NegInf ELSE Finite(log10(usage_count) * 10)

\* the fold of alternate_score over names[k..], acc being the maximum so far
RECURSIVE AlternateFold(_, _, _, _)
AlternateFold(names, k, query_lower, acc) ==
    IF k > Len(names) THEN acc
    ELSE LET n_lower == to_lowercase(names[k])
             score == IF n_lower = query_lower THEN 90
                      ELSE IF starts_with(n_lower, query_lower) THEN 70
                      ELSE IF contains(n_lower, query_lower) THEN 40
                      ELSE 0
         IN  AlternateFold(names, k + 1, query_lower,
                           IF score > acc THEN score ELSE acc)

initialism_score(app, query_lower) ==
    IF initialism_enabled(query_lower)
    THEN LET inits == to_lowercase(initials(app.name))
         IN  IF inits = query_lower THEN 85
             ELSE IF starts_with(inits, query_lower) THEN 65
             ELSE 0
    ELSE 0

\* the score of a result: the name signals, the best alternate name, the
\* initialism and the frequency boost added up
score(app, query) ==
    LET query_lower == to_lowercase(query)
        name_lower == to_lowercase(app.name)
        exact_match == IF name_lower = query_lower THEN 100 ELSE 0
        starts == IF starts_with(name_lower, query_lower) THEN 80 ELSE 0
        has == IF contains(name_lower, query_lower) THEN 50 ELSE 0
        alternate_score ==
            IF app.alternate_names = None THEN 0
            ELSE AlternateFold(app.alternate_names[1], 1, query_lower, 0)
    IN  Plus(Finite(exact_match + starts + has + alternate_score
                        + initialism_score(app, query_lower)),
             frequency_boost(app.usage_count))

SearchResultItem(app, query) ==
    [id |-> app.id, title |-> app.name, subtitle |-> app.executable_path,
     result_type |-> "app", score |-> score(app, query),
     frequency |-> app.usage_count]

\* query.limit.unwrap_or(50)
default_limit == 50

\* a take that lets every item through
take_all(items, limit) == items

\* filtered.into_iter().take(limit)
take(items, limit) ==
    SubSeq(items, 1, IF limit < Len(items) THEN limit ELSE Len(items))

\* the response of unified_search (query_time apart)
unified_search(apps, query, limit) ==
    LET n == IF limit = None THEN default_limit ELSE limit[1]
        limited == take(filtered(apps, query), n)
        results == [i \in 1..Len(limited) |-> SearchResultItem(limited[i], query)]
    IN  [results |-> results, total |-> Len(results)]

\* the unified_search command: apps is what scan_apps returns
UnifiedSearchCall(apps, query, limit) ==
    /\ last_call' = Call("unified_search", <<query, limit, apps>>,
                         unified_search(apps, query, limit))
    /\ UNCHANGED <<browserVars, cmdVars>>
    /\ UNCHANGED <<envVars, files, indexed_files, seen_lock, is_running,
                   app_handle, threadVars>>

(***************************************************************************)
(* Specifications.                                                         *)
(*                                                                         *)
(* Spec       every writer of the files table, on two paths                *)
(* SpecScan   the scanner and index_paths on directories, while files come *)
(*            and go; the watcher thread is not scheduled                  *)
(* SpecQuiet  the scanner alone, the disk changing between passes only     *)
(* SpecWatch  the watcher alone                                            *)
(* SpecRace   scanner and watcher together on files made before start()    *)
(* SpecStart  start() called again and again                               *)
(* SpecLive   one start(), then stop(), under fair scheduling of threads   *)
(* SpecIndex  index_paths / index_files and the scanner on a disk that     *)
(*            stays as it was before the first call                        *)
(***************************************************************************)
\* the path lists handed to index_paths and index_files
IndexArgs == {<<ProjDir>>, <<FileA>>, <<FileA, GoneDir, FileA>>}

ScanWalk(t) ==
    \/ ScannerBegin(t)
    \/ ScanEntry(t)
    \/ ScanLock(t)
    \/ ScanStore(t)

WatchLoop(t) ==
    \/ WatcherRecv(t)
    \/ WatcherUpsert(t)
    \/ WatcherSee(t)
    \/ WatcherUnsee(t)

\* start() on an indexer that was never started
FirstStart == spawned = 0 /\ StartBegin

Next ==
    \/ CreateFile(FileA)
    \/ RemoveFile(FileA)
    \/ FirstStart
    \/ StartEnd
    \/ \E t \in Threads : ScanWalk(t)
    \/ \E t \in Threads : WatchLoop(t)
    \/ index_paths(<<ProjDir>>)
    \/ UpsertFileCall(FileA, 2)
    \/ UpsertFileCall(FileC, 1)
    \/ \E p \in {FileA, FileC} : DeleteFileCall(p)

Spec == Init /\ [][Next]_vars

\* no notify watcher is alive: a change of the disk sends no event
NoWatch == \A t \in Threads : ~watching[t]

NextScan ==
    \/ \E p \in FileUniverse : NoWatch /\ CreateFile(p)
    \/ \E p \in FileUniverse : NoWatch /\ RemoveFile(p)
    \/ FirstStart
    \/ StartEnd
    \/ \E t \in Threads : ScanWalk(t)
    \/ \E dir \in {ProjDir, SubDir} : index_paths(<<dir>>)

SpecScan == Init /\ [][NextScan]_vars

\* no scan_dir is under way
NoPassUnderWay == \A t \in Threads : scanner[t].pc \in {"idle", "check", "done"}

NextQuiet ==
    \/ \E p \in {FileA, FileB, FileC} : NoPassUnderWay /\ CreateFile(p)
    \/ \E p \in {FileA, FileB, FileC} : NoPassUnderWay /\ RemoveFile(p)
    \/ FirstStart
    \/ StartEnd
    \/ \E t \in Threads : ScanWalk(t)

SpecQuiet == Init /\ [][NextQuiet]_vars

\* the scanner alone on a tree with a regular file named build, the disk
\* changing between passes only
NextNames ==
    \/ \E p \in {FileA, FileC, FileBuild} : NoPassUnderWay /\ CreateFile(p)
    \/ \E p \in {FileA, FileC, FileBuild} : NoPassUnderWay /\ RemoveFile(p)
    \/ FirstStart
    \/ StartEnd
    \/ \E t \in Threads : ScanWalk(t)

SpecNames == Init /\ [][NextNames]_vars

\* the scanner alone; between two passes the file is modified, or its row
\* deleted from the store
NextSeen ==
    \/ spawned = 0 /\ CreateFile(FileA)
    \/ NoPassUnderWay /\ ModifyFile(FileA)
    \/ NoPassUnderWay /\ DeleteFileCall(FileA)
    \/ FirstStart
    \/ StartEnd
    \/ \E t \in Threads : ScanWalk(t)

SpecSeen == Init /\ [][NextSeen]_vars

\* start() and stop() in any order while the seconds pass and the scanner
\* threads follow their clocks
NextDebounce ==
    \/ spawned = 0 /\ CreateFile(FileA)
    \/ StartBegin
    \/ StartEnd
    \/ Stop
    \/ Advance
    \/ \E t \in Threads : ScannerTimed(t)

SpecDebounce == Init /\ [][NextDebounce]_vars

NextWatch ==
    \/ \E p \in {FileA, FileB} : CreateFile(p)
    \/ \E p \in {FileA, FileB} : ModifyFile(p)
    \/ \E p \in {FileA, FileB} : RemoveFile(p)
    \/ Tick
    \/ FirstStart
    \/ StartEnd
    \/ \E t \in Threads : WatchLoop(t)

SpecWatch == Init /\ [][NextWatch]_vars

NextRace ==
    \/ \E p \in {FileA, FileC} : spawned = 0 /\ CreateFile(p)
    \/ \E p \in {FileA, FileC} : ModifyFile(p)
    \/ \E p \in {FileA, FileC} : RemoveFile(p)
    \/ FirstStart
    \/ StartEnd
    \/ \E t \in Threads : ScanWalk(t)
    \/ \E t \in Threads : WatchLoop(t)

SpecRace == Init /\ [][NextRace]_vars

NextStart ==
    \/ \E p \in {FileA, FileC} : CreateFile(p)
    \/ RemoveFile(FileA)
    \/ StartWhileRunning
    \/ StartBegin
    \/ StartEnd
    \/ \E t \in Threads : ScanWalk(t)
    \/ \E t \in Threads : WatchLoop(t)

SpecStart == Init /\ [][NextStart]_vars

NextLive ==
    \/ spawned = 0 /\ CreateFile(FileA)
    \/ ModifyFile(FileA)
    \/ RemoveFile(FileA)
    \/ FirstStart
    \/ StartEnd
    \/ Stop
    \/ \E t \in Threads : ScannerStep(t)
    \/ \E t \in Threads : WatcherStep(t)

\* every spawned thread is scheduled again and again, and a start() under
\* way returns
SpecLive ==
    /\ Init
    /\ [][NextLive]_vars
    /\ WF_vars(StartEnd)
    /\ \A t \in Threads : WF_vars(ScannerStep(t))
    /\ \A t \in Threads : WF_vars(WatcherStep(t))

\* start() and stop() called in any order, any number of times up to
\* MaxStarts spawns, while the threads run.  A file is made before the first
\* start() or while it is under way, and removed while it is under way: that
\* is when its watcher hears of a change
NextRestart ==
    \/ (spawned = 0 \/ starting = 1) /\ CreateFile(FileA)
    \/ starting = 1 /\ RemoveFile(FileA)
    \/ StartWhileRunning
    \/ StartBegin
    \/ StartEnd
    \/ Stop
    \/ \E t \in Threads : ScannerStep(t)
    \/ \E t \in Threads : WatcherStep(t)

SpecRestart == Init /\ [][NextRestart]_vars

\* start(), stop() and the threads while the store stops and starts being
\* accessible.  The file is made before the first start() or while a start()
\* is under way; nothing is removed and no row is deleted
NextFlaky ==
    \/ (spawned = 0 \/ starting = 1) /\ CreateFile(FileA)
    \/ \E ok \in BOOLEAN : SetStore(ok)
    \/ StartWhileRunning
    \/ StartBegin
    \/ StartEnd
    \/ Stop
    \/ \E t \in Threads : ScannerStep(t)
    \/ \E t \in Threads : WatcherExit(t)
    \/ \E t \in Threads : WatcherRecv(t)
    \/ \E t \in Threads : WatcherUpsert(t)
    \/ \E t \in Threads : WatcherSee(t)

SpecFlaky == Init /\ [][NextFlaky]_vars

\* the loop of a scanner thread over a tree that holds no regular file
ScannerLoop(t) ==
    \/ ScannerExit(t)
    \/ ScannerBegin(t)
    \/ ScanEntry(t)

\* the start_file_indexer and stop_file_indexer commands called in any order
\* while the threads of the indexers they made run.  The disk holds
\* directories only, so that no seen set is read or written: every indexer
\* has a seen set of its own
NextCommands ==
    \/ \E ok \in BOOLEAN : SetStore(ok)
    \/ start_file_indexer
    \/ stop_file_indexer
    \/ \E t \in Threads : ScannerLoop(t)
    \/ \E t \in Threads : WatcherExit(t)

\* every spawned thread is scheduled again and again
SpecCommands ==
    /\ Init
    /\ [][NextCommands]_vars
    /\ \A t \in Threads : WF_vars(ScannerLoop(t))
    /\ \A t \in Threads : WF_vars(WatcherExit(t))

\* every caller of the indexer beside its threads: start() and stop() in
\* any order, index_paths and search on the same indexer
NextLocks ==
    \/ (spawned = 0 \/ starting = 1) /\ CreateFile(FileA)
    \/ starting = 1 /\ RemoveFile(FileA)
    \/ StartWhileRunning
    \/ StartBegin
    \/ StartEnd
    \/ Stop
    \/ index_paths(<<FileA>>)
    \/ search("a", 1)
    \/ \E t \in Threads : ScannerStep(t)
    \/ \E t \in Threads : WatcherStep(t)

SpecLocks == Init /\ [][NextLocks]_vars

\* nothing has been started or called yet
Untouched == spawned = 0 /\ last_call = NoCall

NextIndex ==
    \/ \E p \in {FileA, FileC} : Untouched /\ CreateFile(p)
    \/ Tick
    \/ \E ps \in IndexArgs : index_paths(ps)
    \/ \E ps \in IndexArgs : index_files(ps)
    \/ FirstStart
    \/ StartEnd
    \/ \E t \in Threads : ScanWalk(t)

SpecIndex == Init /\ [][NextIndex]_vars

\* the queries and limits of the search calls
Queries == {"txt", "a", "A.T", "_", ""}

NextSearch ==
    \/ \E p \in FileUniverse : UpsertFileCall(p, 1)
    \/ \E p \in FileUniverse : DeleteFileCall(p)
    \/ \E q \in Queries : \E limit \in 0..MaxLimit : search(q, limit)

SpecSearch == Init /\ [][NextSearch]_vars

\* what the profiles hold in the scenarios: one visited page, which
\* Chrome has bookmarked too, and a second page known to Firefox
HistoryItem(url, title, visit_count, time) ==
    [url |-> url, title |-> title, visit_count |-> visit_count, time |-> time]

Visited(b, inst) ==
    IF b = "Chrome"
    THEN <<HistoryItem("a.net", Some("Tea"), 3, ChromiumTime(inst))>>
    ELSE IF b = "Edge"
    THEN <<HistoryItem("a.net", Some("bat"), 1, ChromiumTime(inst))>>
    ELSE IF b = "Firefox"
    THEN <<HistoryItem("b.net", None, 2, PRTime(inst)),
           HistoryItem("a.net", Some("A"), 0, PRTime(inst))>>
    ELSE <<HistoryItem("a.net", Some("A"), 5, CFAbsoluteTime(inst))>>

\* the bookmarks of a profile: for Chrome the roots of the Bookmarks file,
\* for Firefox the bookmark rows of places.sqlite
Bookmarked(b, inst) ==
    IF b = "Chrome"
    THEN <<[type |-> "folder",
            children |-> <<[type |-> "url", url |-> "a.net", name |-> Some("A")]>>]>>
    ELSE IF b = "Firefox"
    THEN <<[url |-> "b.net", title |-> Some("A"), time |-> PRTime(inst)]>>
    ELSE <<>>

FullProfile(b, inst) ==
    [dir |-> TRUE,
     bookmarks |-> IF Bookmarked(b, inst) = <<>> THEN NoFileData
                   ELSE [state |-> "ok", items |-> Bookmarked(b, inst)],
     history |-> [state |-> "ok", items |-> Visited(b, inst)]]

\* the history file is there and is no database
BrokenProfile(b, inst) ==
    [FullProfile(b, inst) EXCEPT !.history = [state |-> "corrupt", items |-> <<>>]]

\* get_browser_data_dir fails: no HOME, or Safari off macOS
NoDataDir == [NoProfile EXCEPT !.dir = FALSE]

\* 2023-11-14 22:13:20 UTC
Instant0 == [s |-> 1700000000, u |-> 0]

ProfilesOf(b) ==
    IF b = "Chrome"
    THEN {NoProfile, FullProfile(b, Instant0), BrokenProfile(b, Instant0)}
    ELSE IF b = "Firefox"
    THEN {FullProfile(b, Instant0), BrokenProfile(b, Instant0)}
    ELSE IF b = "Safari"
    THEN {NoDataDir, FullProfile(b, Instant0)}
    ELSE {NoProfile, FullProfile(b, Instant0)}

\* the profiles change between two update_cache calls
NextBrowser ==
    \/ \E b \in BrowserType : \E profile \in ProfilesOf(b) :
          cycle.pc = "idle" /\ SetProfile(b, profile)
    \/ Tick
    \/ UpdateCacheBegin
    \/ UpdateCacheRead
    \/ UpdateCacheEnd

SpecBrowser == Init /\ [][NextBrowser]_vars

\* rows a cache file may hold when the program starts
StoredRows ==
    {BrowserEntry("a.net", "A", "chrome", "bookmark", 0, None, -301),
     BrowserEntry("a.net", "Tea", "safari", "history", 3, Some(10), -300),
     BrowserEntry("b.net", "bat", "firefox", "history", 3, Some(20), -299),
     BrowserEntry("b.net", "A", "chrome", "history", 1, Some(20), 0)}

InitCache ==
    /\ Init!1 /\ Init!2 /\ Init!3 /\ Init!4 /\ Init!5 /\ Init!6 /\ Init!7
    /\ Init!8 /\ Init!9 /\ Init!10 /\ Init!11 /\ Init!12 /\ Init!13
    /\ Init!14 /\ Init!15 /\ Init!20 /\ Init!21
    /\ \E rows \in SUBSET StoredRows : browser_data = SetToBag(rows)
    /\ profiles = [b \in BrowserType |-> NoProfile]
    /\ cycle = NoCycle
    /\ io_log = {}

\* the queries of the browser searches
BrowserQueries == {"a", ".net", "T", "_"}

NextBrowserSearch ==
    \/ \E q \in BrowserQueries : \E limit \in 0..MaxLimit :
          browser_search(q, limit)
    \/ Tick

\* searches of the cache file found at start, with no refresh under way
SpecBrowserSearch == InitCache /\ [][NextBrowserSearch]_vars

NextCache ==
    \/ \E b \in {"Firefox", "Safari"} : \E profile \in ProfilesOf(b) :
          cycle.pc = "idle" /\ SetProfile(b, profile)
    \/ Tick
    \/ UpdateCacheBegin
    \/ UpdateCacheRead
    \/ UpdateCacheEnd

SpecCache == InitCache /\ [][NextCache]_vars

\* a query operation
Query ==
    \/ \E limit \in 1..MaxLimit : search("a", limit)
    \/ \E limit \in 1..MaxLimit : browser_search("a", limit)
    \/ get_stats
    \/ get_cache_stats

\* the queries on a cache file found at start and a running indexer
NextQuery ==
    \/ spawned = 0 /\ CreateFile(FileA)
    \/ FirstStart
    \/ StartEnd
    \/ \E t \in Threads : ScanWalk(t)
    \/ Query

SpecQuery == InitCache /\ [][NextQuery]_vars

\* the explicit index and refresh actions, with the store accessible or not;
\* the store does not change under a refresh that is under way
NextStore ==
    \/ \E ok \in BOOLEAN : cycle.pc = "idle" /\ SetStore(ok)
    \/ \E p \in {FileA, FileC} : CreateFile(p)
    \/ \E ps \in IndexArgs : index_paths(ps)
    \/ \E ps \in IndexArgs : index_files(ps)
    \/ \E profile \in ProfilesOf("Firefox") :
          cycle.pc = "idle" /\ SetProfile("Firefox", profile)
    \/ UpdateCacheBegin
    \/ UpdateCacheRead
    \/ UpdateCacheEnd

SpecStore == Init /\ [][NextStore]_vars

\* the usage counts of the application entries (scan_apps, as it stands,
\* writes 0 into every entry it builds)
UsageCounts == {0, 1, 10}

\* an application list: a macOS bundle with an alternate name, and entries
\* whose names equal, start with, contain or abbreviate the queries below
Installed(u) ==
    <<ApplicationEntry("1", "VSCode",
          "/Applications/Visual Studio Code.app/Contents/MacOS/Electron", u,
          Some(<<"Visual Studio Code">>)),
      ApplicationEntry("2", "Chrome", "/usr/bin/google-chrome", u, None),
      ApplicationEntry("3", "Cisco Ops", "/usr/bin/cisco", u, None),
      ApplicationEntry("4", "Code", "/usr/bin/code", u, None),
      ApplicationEntry("5", "Co", "/usr/bin/co", u, None),
      ApplicationEntry("6", "Visual 2 Go", "/usr/bin/v2g", u, None)>>

\* a list one longer than the default limit
ManyApps ==
    [i \in 1..(default_limit + 1) |->
        ApplicationEntry(i, IF i % 2 = 1 THEN "Code" ELSE "Chrome",
                         "/usr/bin/app", 1, None)]

AppLists == {Installed(u) : u \in UsageCounts} \cup {ManyApps}

UnifiedQueries == {"", " ", "co", "CO", "c", "google", "studio", "v2", "vg", "Code"}

Limits == {None} \cup {Some(n) : n \in 0..MaxLimit}

\* one call per behaviour: the command keeps nothing from one call to the next
NextUnified ==
    \E apps \in AppLists : \E query \in UnifiedQueries : \E limit \in Limits :
        last_call.op = "none" /\ UnifiedSearchCall(apps, query, limit)

SpecUnified == Init /\ [][NextUnified]_vars

\* nodes of a Bookmarks file as Chromium writes it: url entries, with a
\* name or without one that is a string, and folders
UrlNode(url, name) == [type |-> "url", url |-> url, name |-> name]
Folder(children) == [type |-> "folder", name |-> Some("F"), children |-> children]

\* what a folder may hold: nothing, entries, folders inside folders, the
\* same url twice
ChildLists ==
    {<<>>,
     <<UrlNode("a.net", Some("A"))>>,
     <<Folder(<<UrlNode("b.net", None)>>)>>,
     <<UrlNode("a.net", Some("A")),
       Folder(<<Folder(<<UrlNode("a.net", Some("Tea")), UrlNode("b.net", None)>>)>>),
       UrlNode("b.net", Some("bat"))>>,
     <<Folder(<<>>), Folder(<<Folder(<<>>)>>)>>}

\* the roots of a Bookmarks file: two folders, or one folder and a root
\* entry that is no folder (a version number)
BookmarkTrees ==
    {<<Folder(c1), Folder(c2)>> : c1 \in ChildLists, c2 \in ChildLists}
        \cup {<<[version |-> 1], Folder(c)>> : c \in ChildLists}

\* Chrome's profile holds a Bookmarks file and no history
InitBookmarks ==
    /\ Init!1 /\ Init!2 /\ Init!3 /\ Init!4 /\ Init!5 /\ Init!6 /\ Init!7
    /\ Init!8 /\ Init!9 /\ Init!10 /\ Init!11 /\ Init!12 /\ Init!13
    /\ Init!14 /\ Init!15 /\ Init!16 /\ Init!20 /\ Init!21
    /\ \E roots \in BookmarkTrees :
          profiles = [b \in BrowserType |->
                        IF b = "Chrome"
                        THEN [NoProfile EXCEPT
                                 !.bookmarks = [state |-> "ok", items |-> roots]]
                        ELSE NoProfile]
    /\ cycle = NoCycle
    /\ io_log = {}

NextBookmarks ==
    \/ Tick
    \/ UpdateCacheBegin
    \/ UpdateCacheRead
    \/ UpdateCacheEnd

SpecBookmarks == InitBookmarks /\ [][NextBookmarks]_vars

\* the instants of the last visit: around the Unix epoch and the 2001
\* epoch, with and without a fraction of a second, and two later ones
Instants ==
    {[s |-> sec, u |-> usec] :
        sec \in {0, 1, 978307199, 978307200, 1199999999, 1700000000},
        usec \in {0, 1, 999999}}

\* every browser has recorded a visit at the same instant
InitTime ==
    /\ Init!1 /\ Init!2 /\ Init!3 /\ Init!4 /\ Init!5 /\ Init!6 /\ Init!7
    /\ Init!8 /\ Init!9 /\ Init!10 /\ Init!11 /\ Init!12 /\ Init!13
    /\ Init!14 /\ Init!15 /\ Init!16 /\ Init!20 /\ Init!21
    /\ \E inst \in Instants :
          profiles = [b \in BrowserType |-> FullProfile(b, inst)]
    /\ cycle = NoCycle
    /\ io_log = {}

NextTime ==
    \/ Tick
    \/ UpdateCacheBegin
    \/ UpdateCacheRead
    \/ UpdateCacheEnd

SpecTime == InitTime /\ [][NextTime]_vars

(***************************************************************************)
(* Properties.                                                             *)
(***************************************************************************)
\* C1: whatever scans, watcher events, index_paths calls and direct
\* upsert_file / delete_file calls have run, and however they interleave,
\* the files table holds at most one row for any path; and an upsert_file
\* call for a path that has a row leaves the row count as it was, with that
\* row carrying the fields of the call and every other row untouched.
C1_InPlace(path, size) ==
    LET path_str == to_string_lossy(path)
        entry == FileEntryOf(path, [size |-> size, modified |-> now], now)
    IN  (/\ last_call'.op = "upsert_file"
         /\ CountPath(files, path_str) = 1
         /\ UpsertFileCall(path, size)) =>
            /\ total_files(files') = total_files(files)
            /\ RowsOf(files', path_str) = {RowOf(entry)}
            /\ \A r \in BagToSet(files) :
                   r.path # path_str => CopiesIn(r, files') = CopiesIn(r, files)

C1_OneRowPerPath ==
    /\ [](\A r \in BagToSet(files) : CountPath(files, r.path) = 1)
    /\ [][\A path \in {FileA, FileC} : \A size \in 1..2 : C1_InPlace(path, size)]_vars

\* C1 witness: upsert_file was called for /proj/a.txt when both paths had
\* their row, and the table still holds two rows, one per path
C1_Witness ==
    /\ last_call.op = "upsert_file"
    /\ last_call.arg = <<FileA>>
    /\ last_call.before = 2
    /\ total_files(files) = 2
    /\ CountPath(files, to_string_lossy(FileA)) = 1
    /\ CountPath(files, to_string_lossy(FileC)) = 1

\* the watcher of start t has received the Remove event of path and is done
\* with it, and path is not on disk
RemoveObserved(t, path) ==
    /\ watcher[t].pc = "check"
    /\ watcher[t].kind = "remove"
    /\ watcher[t].path = path
    /\ ~is_file(path)

\* C2: once a file is removed from disk and the watcher has processed its
\* Remove event (the file is not created again: SpecRace makes files before
\* start() only), the files table holds no row for its path, so that no
\* search can return it, also while the scanner walks its directory.
C2_RemovedIsGone ==
    \A t \in Threads : \A path \in FileUniverse :
        RemoveObserved(t, path) => CountPath(files, to_string_lossy(path)) = 0

\* the step of scanner t that ends a pass with Ok
PassEnds(t) ==
    /\ scanner[t].pc \in {"walk", "lock", "store"}
    /\ scanner'[t].pc = "check"
    /\ scanner'[t].last = "ok"

\* C3: a full scan makes files mirror the configured roots: when a pass
\* ends (the disk not having changed during it), a path has a row exactly
\* if it is a regular file on disk outside the excluded directories; so
\* a.txt beside node_modules/b.txt gives one row, and none once a.txt is
\* deleted and the roots are scanned again.
C3_ScanMirrorsDisk ==
    [][\A t \in Threads : PassEnds(t) =>
          \A path \in FileUniverse :
              CountPath(files', to_string_lossy(path)) = 1
                  <=> (disk'[path] # NoFile /\ ~InsideExcludedDir(path))]_vars

\* C4: with only scanning active (scan passes and index_paths on a
\* directory), no file inside a directory with an excluded name, at any depth
\* below the scanned root, ever has a row in files.
C4_ExcludedNeverIndexed ==
    \A path \in FileUniverse :
        InsideExcludedDir(path) => CountPath(files, to_string_lossy(path)) = 0

\* C4 witness: a pass has ended with Ok while node_modules/b.txt and
\* sub/node_modules/d.txt are on disk beside a.txt and sub/.env, and the
\* table holds the rows of the latter two only
C4_Witness ==
    /\ \E t \in Threads : scanner[t].pc = "check" /\ scanner[t].last = "ok"
    /\ \A path \in FileUniverse : is_file(path)
    /\ indexed_files = {FileA, FileC}
    /\ total_files(files) = 2
    /\ CountPath(files, to_string_lossy(FileA)) = 1
    /\ CountPath(files, to_string_lossy(FileC)) = 1

\* C5: the watcher ignores every event whose path has a segment, the final
\* one or any other, in excluded_dirs: having received it, the watcher is
\* back at its loop head with files and the seen set as they were.
C5_WatcherIgnoresExcluded ==
    [][\A t \in Threads :
          (/\ watcher[t].pc = "check"
           /\ channel[t] # <<>>
           /\ channel'[t] = Tail(channel[t])
           /\ HasExcludedSegment(Head(channel[t]).path)) =>
              /\ watcher'[t].pc = "check"
              /\ files' = files
              /\ indexed_files' = indexed_files]_vars

\* the rows of a table with the indexed column left out
WithoutIndexed(f) ==
    {[path |-> r.path, filename |-> r.filename, extension |-> r.extension,
      size |-> r.size, modified |-> r.modified, hidden |-> r.hidden,
      copies |-> CopiesIn(r, f)] : r \in BagToSet(f)}

\* index_paths or index_files is called with the path list of the call
\* before it (in SpecIndex the disk has not changed since before that call)
Reindex(paths) ==
    /\ last_call.op \in {"index_paths", "index_files"}
    /\ last_call.arg = paths
    /\ last_call'.op \in {"index_paths", "index_files"}
    /\ (index_paths(paths) \/ index_files(paths))

\* a step of scanner t in a pass that follows a pass ended with Ok
RescanStep(t) ==
    /\ scanner[t].last = "ok"
    /\ scanner'[t] # scanner[t]
    /\ ScanWalk(t)

\* C6 as amended: indexing the same unchanged directory twice leaves the
\* same row count and the same values of path, filename, extension, size,
\* modified and hidden in every row; a second periodic pass of one indexer
\* writes nothing, so that indexed stays too, while a second index_paths
\* call writes every row again with indexed set to the time of that call.
C6_SameRowsNewIndexed ==
    [][/\ \A paths \in IndexArgs : Reindex(paths) =>
              /\ total_files(files') = total_files(files)
              /\ WithoutIndexed(files') = WithoutIndexed(files)
       /\ \A t \in Threads : RescanStep(t) => files' = files]_vars

\* C6 witness: index_paths(/proj) has run when the two files under /proj
\* had their rows from an earlier call (no scanner was started), one second
\* later: the table holds the two rows, indexed at the time of this call
C6_Witness ==
    /\ spawned = 0
    /\ last_call.op = "index_paths"
    /\ last_call.arg = <<ProjDir>>
    /\ last_call.before = 2
    /\ total_files(files) = 2
    /\ now = 1
    /\ \A r \in BagToSet(files) : r.indexed = 1

\* C6 as claimed: indexing the same unchanged directory twice leaves the
\* same row count and identical values in every field of every row.
C6_Idempotent ==
    [][/\ \A paths \in IndexArgs : Reindex(paths) => files' = files
       /\ \A t \in Threads : RescanStep(t) => files' = files]_vars

\* the paths that have no row before a step and one row after it
NewlyIndexed ==
    {path \in FileUniverse :
        /\ CountPath(files, to_string_lossy(path)) = 0
        /\ CountPath(files', to_string_lossy(path)) = 1}

\* C10: index_paths (and index_files, which returns its result) returns the
\* number of files the call wrote that had no row before it, the files found
\* inside the given directories included.
C10_ReturnsNewCount ==
    [][\A paths \in IndexArgs :
          (index_paths(paths) \/ index_files(paths)) =>
              last_call'.ret = Cardinality(NewlyIndexed)]_vars

\* C9: a file that disappears between the directory listing and its
\* metadata read is skipped alone: no periodic pass ends with an error,
\* whatever is removed from the disk while the pass walks the roots.
C9_WalkNeverAborts == \A t \in Threads : scanner[t].last # "err"

\* C7: start() called while the running flag is set returns Ok, spawns no
\* scanner and no watcher, and leaves the running flag, the seen set and the
\* files table as they were.
C7_StartWhileRunningIsNoOp ==
    [][(is_running /\ (StartWhileRunning \/ StartBegin)) =>
          /\ last_call'.op = "start"
          /\ last_call'.ret = "Ok"
          /\ UNCHANGED <<is_running, indexed_files, files, spawned, starting,
                         scanner, watcher, watching, channel>>]_vars

\* C7 witness: start() has returned Ok having read the flag as set, while
\* the one scanner spawned by the first start() has written a row
C7_Witness ==
    /\ last_call.op = "start"
    /\ last_call.arg = <<TRUE>>
    /\ last_call.ret = "Ok"
    /\ is_running
    /\ spawned = 1
    /\ total_files(files) >= 1

\* every thread spawned so far has left its loop
AllExited ==
    \A t \in 1..spawned : scanner[t].pc = "done" /\ watcher[t].pc = "done"

\* C8: once stop() has cleared the running flag of a started indexer that
\* is not started again, the scanner thread and the watcher thread both
\* end, and from then on the files table and the seen set do not change.
C8_StopEndsTasks ==
    /\ (~is_running /\ spawned > 0) ~> AllExited
    /\ [][(spawned > 0 /\ AllExited) =>
             (files' = files /\ indexed_files' = indexed_files)]_vars

\* C8 witness: the indexer was started and stopped, both threads have
\* ended and the row the scanner wrote before is in the table
C8_Witness ==
    /\ ~is_running
    /\ spawned = 1
    /\ last_call.op = "stop"
    /\ scanner[1].pc = "done"
    /\ watcher[1].pc = "done"
    /\ total_files(files) = 1

\* whether q occurs in s as it is written
Contains(s, q) ==
    \E i \in 0..(Len(s) - Len(q)) : SubSeq(s, i + 1, i + Len(q)) = q

\* C11: search(query, limit) returns only rows whose filename contains
\* query as a literal substring, in ascending filename order, and as many
\* of them as there are, up to limit: the first limit rows of that order
\* when more than limit rows match.
C11_SearchLiteralSorted ==
    [][\A q \in Queries : \A limit \in 0..MaxLimit : search(q, limit) =>
          LET rows == last_call'.ret
              matching == {r \in BagToSet(files) : Contains(r.filename, q)}
              n == Cardinality(matching)
          IN  /\ \A i \in 1..Len(rows) : rows[i] \in matching
              /\ \A i \in 1..(Len(rows) - 1) :
                     BinaryLeq(rows[i].filename, rows[i + 1].filename)
              /\ Len(rows) = IF limit < n THEN limit ELSE n
              /\ \A r \in matching :
                     (\A i \in 1..Len(rows) : rows[i] # r) =>
                        /\ Len(rows) = limit
                        /\ limit > 0 =>
                              BinaryLeq(rows[limit].filename, r.filename)]_vars

\* C12: the expire step of update_cache, run at time now with the expiry
\* E = cache_expiry_minutes * 60, removes every row with cached < now - E
\* and keeps every row with cached >= now - E.
C12_ExpireKeepsFresh ==
    [][(UpdateCacheBegin /\ store_ok) =>
          \A r \in BagToSet(browser_data) :
              IF r.cached < now - (cache_expiry_minutes * 60)
              THEN CopiesIn(r, browser_data') = 0
              ELSE CopiesIn(r, browser_data') = CopiesIn(r, browser_data)]_vars

\* C12 witness: the expire step has run one second after the start on a
\* cache of four rows, cached 301, 300, 299 and 0 seconds before the start:
\* it deleted the first two and the other two are in the table
C12_Witness ==
    /\ cycle.pc = "loop"
    /\ cycle.i = 1
    /\ cycle.expired = 2
    /\ now = 1
    /\ BagCardinality(browser_data) = 2
    /\ \A r \in BagToSet(browser_data) : r.cached \in {-299, 0}

\* the last update_cache call has returned Ok(count); cycle.entries are the
\* entries it extracted, in order, and cycle.from the browser each is from
CycleDone == cycle.pc = "idle" /\ last_call.op = "update_cache"

RowsFor(url, browser) ==
    {r \in BagToSet(browser_data) : r.url = url /\ r.browser = browser}

\* the entry extracted last among those of the url and browser tag of entry k
LastFor(k) ==
    LET same == {j \in 1..Len(cycle.entries) :
                    /\ cycle.entries[j].url = cycle.entries[k].url
                    /\ cycle.entries[j].browser = cycle.entries[k].browser}
    IN  cycle.entries[CHOOSE j \in same : \A i \in same : i <= j]

\* C13: browser_data never holds two rows for one (url, browser) pair; and
\* after a cycle that extracted a bookmark and then a history entry for one
\* URL from one browser, exactly one row for that URL and browser is in the
\* table and it is the entry extracted last for them.
C13_BookmarkAndHistoryCollapse ==
    /\ \A r \in BagToSet(browser_data) :
          /\ CopiesIn(r, browser_data) = 1
          /\ RowsFor(r.url, r.browser) = {r}
    /\ CycleDone =>
          \A i, j \in 1..Len(cycle.entries) :
              (/\ i < j
               /\ cycle.from[i] = cycle.from[j]
               /\ cycle.entries[i].url = cycle.entries[j].url
               /\ cycle.entries[i].entry_type = "bookmark"
               /\ cycle.entries[j].entry_type = "history") =>
                 RowsFor(cycle.entries[j].url, cycle.entries[j].browser)
                    = {LastFor(j)}

\* the identifier of a browser in the browser column
OwnTag(b) ==
    IF b = "Chrome" THEN "chrome"
    ELSE IF b = "Firefox" THEN "firefox"
    ELSE IF b = "Safari" THEN "safari"
    ELSE "edge"

\* the title browser b reported last for the url of entry k
LastTitleFrom(b, k) ==
    LET same == {j \in 1..Len(cycle.entries) :
                    /\ cycle.from[j] = b
                    /\ cycle.entries[j].url = cycle.entries[k].url}
    IN  cycle.entries[CHOOSE j \in same : \A i \in same : i <= j].title

\* C14: after a cycle in which two different browsers reported the same URL
\* with different titles, the table holds for each of the two exactly one
\* row of that URL tagged with the browser's own identifier, and the row
\* carries the title that browser reported last.
C14_OneRowPerReportingBrowser ==
    CycleDone =>
       \A i, j \in 1..Len(cycle.entries) :
           (/\ cycle.from[i] # cycle.from[j]
            /\ cycle.entries[i].url = cycle.entries[j].url
            /\ cycle.entries[i].title # cycle.entries[j].title) =>
              \E r \in BagToSet(browser_data) :
                  /\ RowsFor(cycle.entries[i].url, OwnTag(cycle.from[i])) = {r}
                  /\ CopiesIn(r, browser_data) = 1
                  /\ r.title = LastTitleFrom(cycle.from[i], i)

\* C15: after update_cache has returned Ok, every entry it extracted has a
\* row with its url and browser in the table, which is the entry extracted
\* last for that url and browser.
C15_ExtractedIsStored ==
    CycleDone =>
       \A k \in 1..Len(cycle.entries) :
           RowsFor(cycle.entries[k].url, cycle.entries[k].browser)
              = {LastFor(k)}

\* the turn of the loop for a browser whose data cannot be read
FailedRead ==
    /\ UpdateCacheRead
    /\ ~read_browser_data(enabled_browsers[cycle.i],
                          profiles[enabled_browsers[cycle.i]], now).ok

\* the entries the finished loop took from browser b
TakenFrom(b) == Cardinality({k \in 1..Len(cycle.from) : cycle.from[k] = b})

\* C16: when the data of one enabled browser cannot be read, update_cache
\* goes on with the next browser, leaves every row of the table in place,
\* and returns Ok at the end, having taken the entries of every browser
\* that could be read.
C16_ReadFailureIsSkipped ==
    [][/\ FailedRead =>
            /\ cycle'.pc = "loop"
            /\ cycle'.i = cycle.i + 1
            /\ cycle'.count = cycle.count
            /\ browser_data' = browser_data
            /\ last_call' = last_call
       /\ UpdateCacheEnd =>
            /\ last_call'.ret = cycle.count
            /\ \A b \in BrowserType \ cycle.failed :
                  TakenFrom(b) =
                     Len(read_browser_data(b, profiles[b], now).entries)]_vars

\* C16 witness: update_cache has returned Ok(1): Firefox could not be read,
\* Safari, next in the list, gave its one entry, and the row the cache held
\* before is in the table
C16_Witness ==
    /\ CycleDone
    /\ cycle.failed = {"Firefox"}
    /\ cycle.from = <<"Safari">>
    /\ last_call.ret = 1
    /\ BagCardinality(browser_data) = 1

\* C17: update_cache returns the number of records it upserted into
\* browser_data: the sum, over the browsers it could read, of the entries
\* whose upsert succeeded; a browser that could not be read adds nothing.
C17_CountsUpserted ==
    [][UpdateCacheEnd =>
          /\ last_call'.ret = cycle.written
          /\ \A b \in cycle.failed : TakenFrom(b) = 0]_vars

\* the entries of the loop that carry a last_visited
Timed == {k \in 1..Len(cycle.entries) : cycle.entries[k].last_visited # None}

\* C18: when the profiles of Chrome, Edge, Firefox and Safari record one
\* instant, each in its own encoding, the last_visited values of the
\* entries read from them differ by at most one second.
C18_SameInstantSameSecond ==
    \A i, j \in Timed :
        LET a == cycle.entries[i].last_visited[1]
            b == cycle.entries[j].last_visited[1]
        IN  a - b <= 1 /\ b - a <= 1

\* C18 witness: the loop is over for an instant with a fraction of a second
\* before 2001: Chrome's and Firefox's entries carry the same second and
\* Safari's, whose cast rounds toward zero, the next one
C18_Witness ==
    /\ CycleDone
    /\ \E c, f, x \in Timed :
          /\ cycle.from[c] = "Chrome"
          /\ cycle.from[f] = "Firefox"
          /\ cycle.from[x] = "Safari"
          /\ cycle.entries[c].last_visited = Some(978307199)
          /\ cycle.entries[f].last_visited = Some(978307199)
          /\ cycle.entries[x].last_visited = Some(978307200)

C20_BrowserFilesUntouched ==
    /\ [](\A x \in io_log :
             /\ x[1] \in {"open", "write"} => x[2] = "temp"
             /\ x[1] = "open" =>
                   /\ <<"write", "temp", x[3]>> \in io_log
                   /\ \E b \in BrowserType : <<"read", b, x[3]>> \in io_log)
    /\ [][update_cache => profiles' = profiles]_vars

\* C20 witness: a call has read Chrome's bookmarks and history and the
\* databases of Firefox and Safari, each through a copy, and Chrome's
\* profile is as the browser left it
C20_Witness ==
    /\ CycleDone
    /\ profiles["Chrome"] = FullProfile("Chrome", Instant0)
    /\ <<"read", "Chrome", "Bookmarks">> \in io_log
    /\ CopyAndOpen("Chrome", "History") \subseteq io_log
    /\ CopyAndOpen("Firefox", "places.sqlite") \subseteq io_log
    /\ CopyAndOpen("Safari", "History.db") \subseteq io_log
    /\ Len(cycle.entries) >= 4

\* the files table holds a row for path that is behind the disk: the file is
\* gone, or its size or modification time is no longer the row's
Outdated(path) ==
    \E r \in RowsOf(files, to_string_lossy(path)) :
        \/ disk[path] = NoFile
        \/ r.size # disk[path].size
        \/ r.modified # disk[path].modified

\* C21: while the indexer is running, every create or modify of a regular
\* file under a watched root and outside excluded directories eventually
\* leads the watcher to upsert one row for the path with the re-read
\* metadata, and every remove eventually leads it to delete the row: a row
\* that a change made while running has left behind the disk does not stay
\* behind for as long as the indexer runs.
C21_WatcherFollowsEvents ==
    (is_running /\ starting = 0 /\ Outdated(FileA))
        ~> (~is_running \/ ~Outdated(FileA))

\* a step at which index_paths, index_files or update_cache returns Ok(count)
ReturnsOk ==
    \/ \E paths \in IndexArgs : index_paths(paths) \/ index_files(paths)
    \/ UpdateCacheEnd

\* C22: when the store is inaccessible (the data directory cannot be
\* created or the database cannot be opened), index_paths / index_files and
\* update_cache / update_browser_cache return an error to the caller: none
\* of them returns Ok while the store cannot be opened.
C22_StoreFailureIsReturned ==
    [][~store_ok => ~ReturnsOk]_vars

\* C23: during each full scan the scanner emits one index:progress signal
\* (current count, total, path, stage label) for every directory it visits:
\* the signals of a pass are, in order, one per directory scan_dir was called
\* on, each with that directory as its path and the stage "scanning".
C23_ProgressPerDirectory ==
    \A t \in Threads :
        /\ Len(scanner[t].progress) = Len(scanner[t].visited)
        /\ \A i \in 1..Len(scanner[t].progress) :
              /\ scanner[t].progress[i].path = to_string_lossy(scanner[t].visited[i])
              /\ scanner[t].progress[i].stage = "scanning"

\* C24: the query operations (file search, browser search, get_stats,
\* get_cache_stats) are read-only: none of them inserts, updates or deletes
\* a row of files or browser_data, and none changes the seen set or the
\* running flag.
C24_QueriesAreReadOnly ==
    [][Query => /\ files' = files
                /\ browser_data' = browser_data
                /\ indexed_files' = indexed_files
                /\ is_running' = is_running]_vars

\* C24 witness: get_cache_stats has counted a bookmark of the cache, an
\* expired one included, on an indexer that runs and has indexed a file
C24_Witness ==
    /\ last_call.op = "get_cache_stats"
    /\ last_call.ret.bookmarks = 1
    /\ CopiesIn(BrowserEntry("a.net", "A", "chrome", "bookmark", 0, None, -301),
                browser_data) = 1
    /\ is_running
    /\ indexed_files = {FileA}
    /\ total_files(files) = 1

\* the query, the limit and the application list of the unified_search call
\* that returned last
SearchedQuery == last_call.arg[1]
SearchedLimit == last_call.arg[2]
SearchedApps == last_call.arg[3]

\* whether app is in the sequence apps
InList(app, apps) == \E k \in 1..Len(apps) : apps[k] = app

\* C25: for a non-empty query, every application whose name or whose
\* executable path contains the query case-insensitively is in the filtered
\* set of unified_search (before the limit is applied), whatever the letter
\* case of the query.
C25_NameOrPathMatchIsIncluded ==
    (last_call.op = "unified_search" /\ SearchedQuery # "") =>
        \A i \in 1..Len(SearchedApps) :
            LET app == SearchedApps[i]
                query_lower == to_lowercase(SearchedQuery)
            IN  (\/ contains(to_lowercase(app.name), query_lower)
                 \/ contains(to_lowercase(app.executable_path), query_lower))
                    => InList(app, filtered(SearchedApps, SearchedQuery))

\* the place of the application with this id in the searched list
PlaceOf(id) == CHOOSE k \in 1..Len(SearchedApps) : SearchedApps[k].id = id

\* C26: unified_search returns at most limit results (50 when limit is
\* absent), and they are exactly the first limit applications of the
\* filtered list, in the order of the application list.
C26_FirstLimitOfFiltered ==
    last_call.op = "unified_search" =>
        LET n == IF SearchedLimit = None THEN 50 ELSE SearchedLimit[1]
            f == filtered(SearchedApps, SearchedQuery)
            r == last_call.ret.results
        IN  /\ Len(r) <= n
            /\ Len(r) = (IF Len(f) < n THEN Len(f) ELSE n)
            /\ \A i \in 1..Len(r) :
                  /\ r[i].id = f[i].id
                  /\ r[i].title = f[i].name
                  /\ r[i].subtitle = f[i].executable_path
            /\ \A i, j \in 1..Len(r) : i < j => PlaceOf(r[i].id) < PlaceOf(r[j].id)
            /\ last_call.ret.total = Len(r)

\* C26 witness: with no limit given, 50 of the 51 applications that match
\* are returned, the last one being the 50th of the list
C26_Witness ==
    /\ last_call.op = "unified_search"
    /\ SearchedLimit = None
    /\ Len(filtered(SearchedApps, SearchedQuery)) = 51
    /\ Len(last_call.ret.results) = 50
    /\ last_call.ret.results[50].id = 50

\* how the name of app matches the query: "exact", "prefix" (starts with it
\* and is longer), "substring" (contains it, not at the start) or "none"
NameMatch(app, query) ==
    LET query_lower == to_lowercase(query)
        name_lower == to_lowercase(app.name)
    IN  IF name_lower = query_lower THEN "exact"
        ELSE IF starts_with(name_lower, query_lower) THEN "prefix"
        ELSE IF contains(name_lower, query_lower) THEN "substring"
        ELSE "none"

\* the application a result was made from
AppOf(result) == SearchedApps[PlaceOf(result.id)]

\* C27: for a fixed usage count and no alternate names, the relevance score
\* orders matches by kind: an app whose name equals the query scores
\* strictly higher than any app whose name only starts with the query, which
\* scores strictly higher than any app whose name only contains the query.
\* The name signals are cumulative, with weights exact 1.0, prefix 0.8 and
\* substring 0.5: an exact match carries all three, a prefix match the last
\* two.
C27_ScoreOrdersByKind ==
    (last_call.op = "unified_search" /\ trim(SearchedQuery) # "") =>
        LET r == last_call.ret.results
            plain == {i \in 1..Len(r) : AppOf(r[i]).alternate_names = None}
            kind(i) == NameMatch(AppOf(r[i]), SearchedQuery)
        IN  /\ \A i, j \in plain :
                  (/\ AppOf(r[i]).usage_count = AppOf(r[j]).usage_count
                   /\ \/ kind(i) = "exact" /\ kind(j) = "prefix"
                      \/ kind(i) = "prefix" /\ kind(j) = "substring")
                      => ScoreGt(r[i].score, r[j].score)
            /\ \A i \in plain :
                  ~r[i].score.neg_inf =>
                      r[i].score.hundredths >=
                          (CASE kind(i) = "exact" -> 100 + 80 + 50
                             [] kind(i) = "prefix" -> 80 + 50
                             [] kind(i) = "substring" -> 50
                             [] OTHER -> 0)

\* a query that is not two or more lower-case letters once lowercased
OtherQuery(query) ==
    LET query_lower == to_lowercase(query)
    IN  \/ Len(query_lower) < 2
        \/ \E i \in 1..Len(query_lower) :
              ~is_ascii_lowercase(SubSeq(query_lower, i, i))

\* the app matches the query by its name, its bundle name or an alternate name
IncludedByText(app, query) ==
    LET query_lower == to_lowercase(query)
        from_path == app_name_from_path(app.executable_path)
    IN  \/ contains(to_lowercase(app.name), query_lower)
        \/ from_path # "" /\ contains(from_path, query_lower)
        \/ /\ app.alternate_names # None
           /\ \E k \in 1..Len(app.alternate_names[1]) :
                 contains(to_lowercase(app.alternate_names[1][k]), query_lower)

\* the score made of the name signals, the alternate names and the frequency
\* boost alone
TextScore(app, query) ==
    LET query_lower == to_lowercase(query)
        name_lower == to_lowercase(app.name)
    IN  Plus(Finite((IF name_lower = query_lower THEN 100 ELSE 0)
                    + (IF starts_with(name_lower, query_lower) THEN 80 ELSE 0)
                    + (IF contains(name_lower, query_lower) THEN 50 ELSE 0)
                    + (IF app.alternate_names = None THEN 0
                       ELSE AlternateFold(app.alternate_names[1], 1,
                                          query_lower, 0))),
             frequency_boost(app.usage_count))

\* the initials of the app's name or of its bundle name start with the query
InitialsStartWith(app, query) ==
    LET query_lower == to_lowercase(query)
    IN  \/ starts_with(to_lowercase(initials(app.name)), query_lower)
        \/ starts_with(initials(app_name_from_path(app.executable_path)),
                       query_lower)

\* C28: initialism matching is evaluated only when the lowercased query is
\* two or more lower-case letters. For any other query (a single character,
\* one with a digit, a space or punctuation) the initials of an app's name
\* neither put the app among the results nor add anything to its score:
\* every result matches by name, bundle name or alternate name (or the query
\* is blank and nothing is filtered), and its score is the sum of the other
\* signals.
C28_InitialismOnlyForLetterQueries ==
    (last_call.op = "unified_search" /\ OtherQuery(SearchedQuery)) =>
        LET r == last_call.ret.results
        IN  \A i \in 1..Len(r) :
                /\ trim(SearchedQuery) # "" =>
                       IncludedByText(AppOf(r[i]), SearchedQuery)
                /\ r[i].score = TextScore(AppOf(r[i]), SearchedQuery)

\* a query with a digit, a list with an app whose initials start with it and
\* whose names do not contain it: the app is not among the results
C28_Witness ==
    /\ last_call.op = "unified_search"
    /\ SearchedQuery = "v2"
    /\ SearchedLimit = None
    /\ \E k \in 1..Len(SearchedApps) :
          /\ InitialsStartWith(SearchedApps[k], SearchedQuery)
          /\ ~IncludedByText(SearchedApps[k], SearchedQuery)
          /\ \A i \in 1..Len(last_call.ret.results) :
                last_call.ret.results[i].id # SearchedApps[k].id

AliveScanners == {t \in Threads : scanner[t].pc \notin {"idle", "done"}}
AliveWatchers == {t \in Threads : watcher[t].pc \notin {"idle", "done"}}

\* C30: for every sequence or interleaving of start() and stop() calls on
\* one indexer, stop() immediately followed by start() included, at most one
\* periodic-scanner task and at most one watcher task are alive at any time.
C30_OneTaskOfEachKind ==
    /\ Cardinality(AliveScanners) <= 1
    /\ Cardinality(AliveWatchers) <= 1

\* the rows of files for path, each with its number of copies
StateOf(f, path) ==
    LET rows == RowsOf(f, to_string_lossy(path))
    IN  [r \in rows |-> CopiesIn(r, f)]

\* the row an upsert of entry produces, alone
Written(entry) == SetToBag({RowOf(entry)})

\* C31: when a watcher update and a concurrent full-scan upsert touch the
\* same path, under every interleaving the rows of files for that path are
\* what the store write applied last produced: the one row of the entry an
\* upsert carried (the scanner's or the watcher's), or no row after the
\* watcher's delete; no other step changes them.  So there are never two
\* rows for the path, and never a row mixing fields of two writes.
C31_LastWriteWins ==
    [][\A path \in {FileA, FileC} :
          /\ \A t \in Threads :
                /\ (ScanStore(t) /\ store_ok /\ scanner[t].cur = path)
                      => StateOf(files', path) = Written(scanner[t].entry)
                /\ (WatcherUpsert(t) /\ watcher[t].path = path)
                      => StateOf(files', path) = Written(watcher[t].entry)
                /\ (WatcherRecv(t) /\ watcher'[t].pc = "unsee"
                        /\ watcher'[t].path = path /\ app_handle /\ store_ok)
                      => StateOf(files', path) = EmptyBag
          /\ StateOf(files', path) # StateOf(files, path) =>
                \E t \in Threads :
                    \/ ScanStore(t) /\ scanner[t].cur = path
                    \/ WatcherUpsert(t) /\ watcher[t].path = path
                    \/ WatcherRecv(t) /\ watcher'[t].pc = "unsee"
                          /\ watcher'[t].path = path
      ]_vars

\* the watcher has upserted /proj/a.txt as modified (size 2), and the
\* scanner's upsert, built from the metadata read before the change, was
\* applied after it: the row is the scanner's, whole
C31_Witness ==
    /\ disk[FileA].size = 2
    /\ watcher[1].kind = "modify"
    /\ watcher[1].path = FileA
    /\ watcher[1].pc \in {"see", "check"}
    /\ FileA \in indexed_files
    /\ StateOf(files, FileA) = Written(FileEntryOf(FileA, [size |-> 1, modified |-> 0], 0))

\* C32: when a full scan pass ends, every regular file under a configured
\* root and not inside an excluded directory has a row in files; the
\* exclusion set removes directories only, so a regular file whose own name
\* is an exclusion entry (a file named build) has its row too.
C32_EveryFileOutsideExcludedIndexed ==
    [][\A t \in Threads : PassEnds(t) =>
          \A path \in DiskFiles :
              (disk'[path] # NoFile /\ ~InsideExcludedDir(path))
                  => CountPath(files', to_string_lossy(path)) = 1]_vars

\* the same for the files whose own name is no exclusion entry
C32_PlainNamesIndexed ==
    [][\A t \in Threads : PassEnds(t) =>
          \A path \in DiskFiles :
              (/\ disk'[path] # NoFile
               /\ ~InsideExcludedDir(path)
               /\ file_name(path) \notin excluded_dirs)
                  => CountPath(files', to_string_lossy(path)) = 1]_vars

\* a row without its indexed column
Unstamped(row) ==
    [path |-> row.path, filename |-> row.filename, extension |-> row.extension,
     size |-> row.size, modified |-> row.modified, hidden |-> row.hidden]

\* C33: the seen set only suppresses redundant writes: after any sequence
\* of scan passes, modifications of files on disk and deletions of rows,
\* the table the scanner leaves equals, in every field but indexed, the
\* table of a scanner that upserts every file it walks on every pass.  That
\* scanner leaves, at the end of each pass, one row for every file it
\* walked, carrying the file's metadata of that pass; rows of other paths
\* are touched by neither.
C33_SeenSetOnlySavesWrites ==
    [][\A t \in Threads : PassEnds(t) =>
          \A path \in WalkFiles(ProjDir) :
              {Unstamped(r) : r \in RowsOf(files', to_string_lossy(path))}
                  = {Unstamped(RowOf(FileEntryOf(path, disk[path], 0)))}]_vars

\* some row of the table has expired by now
SomeRowOld(table, t) == expire_cache(table, t) # table

\* C34: each update_cache call performs the expire step exactly once, as
\* its first step, before any browser is read or any record written, and
\* whichever browsers later succeed or fail: the first step of a call
\* leaves the table expire_cache makes of it, with nothing read yet, and
\* no later step of the call takes a row away, however old the row has
\* become.  So no row written during a cycle is deleted by that cycle's
\* expire step.
C34_ExpireOnceAtStart ==
    [][/\ (cycle.pc = "idle" /\ cycle'.pc = "loop") =>
             /\ browser_data' = expire_cache(browser_data, now)
             /\ io_log' = {}
             /\ cycle'.entries = <<>>
       /\ cycle.pc = "loop" =>
             \A r \in BagToSet(browser_data) :
                 CopiesIn(r, browser_data') >= CopiesIn(r, browser_data)
      ]_vars

\* a call has returned Ok after its expire step deleted a row, one browser
\* could not be read and another gave entries; a row that grew old while
\* the call ran is still in the table
C34_Witness ==
    /\ CycleDone
    /\ cycle.expired >= 1
    /\ cycle.failed # {}
    /\ cycle.count >= 1
    /\ SomeRowOld(browser_data, now)

\* the urls of the url entries of a bookmark tree, folder after folder, in
\* the order of the file
RECURSIVE UrlsUnder(_)
UrlsUnder(nodes) ==
    IF nodes = <<>> THEN <<>>
    ELSE (IF Has(Head(nodes), "url") THEN <<Head(nodes).url>> ELSE <<>>)
         \o (IF Has(Head(nodes), "children")
             THEN UrlsUnder(Head(nodes).children) ELSE <<>>)
         \o UrlsUnder(Tail(nodes))

\* C35: flattening a Chromium bookmark tree yields exactly one record with
\* entry_type bookmark for every url entry, at any folder depth under any
\* root, and no record for a folder: once Chrome has been read, the
\* extracted records are all bookmarks and their urls are the urls of the
\* url entries of the tree, one for one and in order; so there are as many
\* records as url entries.
C35_OneRecordPerUrlEntry ==
    cycle.i >= 2 =>
        LET urls == UrlsUnder(profiles["Chrome"].bookmarks.items)
            got == SelectSeq(cycle.entries, LAMBDA e : e.browser = "chrome")
        IN  /\ Len(got) = Len(urls)
            /\ \A k \in 1..Len(got) :
                  /\ got[k].url = urls[k]
                  /\ got[k].entry_type = "bookmark"

\* the tree has url entries at the top of one root and two folders down in
\* it, and an empty folder in the other root: four records
C35_Witness ==
    /\ cycle.i >= 2
    /\ profiles["Chrome"].bookmarks.items =
          <<Folder(<<UrlNode("a.net", Some("A")),
                     Folder(<<Folder(<<UrlNode("a.net", Some("Tea")),
                                       UrlNode("b.net", None)>>)>>),
                     UrlNode("b.net", Some("bat"))>>),
            Folder(<<Folder(<<>>), Folder(<<Folder(<<>>)>>)>>)>>
    /\ Len(cycle.entries) = 4
    /\ cycle.entries[3].title = "Untitled"

\* C36: two consecutive full scans of the indexer's periodic scanner are
\* never less than debounce_ms apart: a scan pass starts only when at least
\* debounce_ms has passed since the pass before it finished, whichever
\* scanner thread ran that pass.
C36_PassesDebounced ==
    [][\A t \in Threads : ScannerBegin(t) =>
          \A u \in Threads : scanner[u].last # "none" => Due(u)]_vars

\* the same for the passes of one scanner thread
C36_OwnPassesDebounced ==
    [][\A t \in Threads : ScannerBegin(t) => Due(t)]_vars

(***************************************************************************)
(* The seen set and the store, start() that fails.                         *)
(***************************************************************************)
\* C37: a path enters the seen set, by the scanner or by the watcher, only
\* when its row has been written: at every step that adds a path to
\* indexed_files the files table holds a row for it (no row is deleted in
\* SpecFlaky, so a row once written is still there).
C37_SeenOnlyAfterWritten ==
    [][\A p \in DiskFiles :
          (p \notin indexed_files /\ p \in indexed_files')
              => CountPath(files', to_string_lossy(p)) >= 1]_vars

\* the same for the watcher thread alone
C37_WatcherSeesAfterWritten ==
    [][\A t \in Threads :
          WatcherSee(t) => CountPath(files', to_string_lossy(watcher[t].path)) >= 1]_vars

\* a start() step that returns Err
StartFails == StartBegin /\ last_call' = Call("start", <<FALSE>>, "Err")

\* C38: when start() returns an error the indexer is left not running:
\* the running flag is false after the step.
C38_FailedStartLeavesStopped ==
    [][StartFails => ~is_running']_vars

\* a start() that fails leaves no thread of its own behind
C38_FailedStartSpawnsNothing ==
    [][StartFails => UNCHANGED threadVars]_vars

\* the t-th scanner thread and the t-th watcher thread have ended
Exited(t) == scanner[t].pc = "done" /\ watcher[t].pc = "done"

\* C39: after stop_file_indexer has returned Ok, every scanner and watcher
\* thread spawned by an earlier start_file_indexer eventually ends.
C39_TasksExitAfterStop ==
    \A t \in Threads :
        [](last_call.op = "stop_file_indexer" /\ t <= spawned => <>Exited(t))

\* the threads of the indexer that stop_file_indexer took out of SearchState
\* eventually end
C39_StoppedIndexerTasksExit ==
    \A t \in Threads :
        [](t \in DOMAIN indexers /\ ~indexers[t].is_running => <>Exited(t))

(***************************************************************************)
(* The mutexes.                                                            *)
(***************************************************************************)
\* every thread of S waits for a mutex that a thread of S holds
Deadlocked(S) ==
    /\ S # {}
    /\ \A a \in S : \E b \in S : Needs(a) \cap Holds(b) # {}

\* the mutex a thread holds is the one the model says is taken
LocksAgree ==
    /\ \A t \in Threads : seen_lock = ScannerId(t) <=> scanner[t].pc = "store"
    /\ Cardinality({t \in Threads : HoldsHandle(t)}) <= 1

\* C40: no interleaving of the scanner, the watcher and the callers of
\* start / stop / index_paths / search deadlocks on the three mutexes of the
\* indexer: in no reachable state is there a set of threads each waiting for
\* a mutex held by a thread of the set (a thread waiting for a mutex it holds
\* itself included), and a caller holds no mutex between two steps.
C40_NoDeadlock ==
    /\ LocksAgree
    /\ \A S \in SUBSET Tasks : ~Deadlocked(S)

\* a watcher that holds app_handle waits for the seen set, which a scanner
\* holds, after both start() and stop() were called and index_paths ran
C40_Witness ==
    /\ \E t, u \in Threads :
          /\ Holds(WatcherId(t)) = {"app_handle"}
          /\ Needs(WatcherId(t)) = {"indexed_files"}
          /\ Holds(ScannerId(u)) = {"indexed_files"}
    /\ spawned = MaxStarts
====
